---- MODULE Spec2Model ----
(***************************************************************************)
(* A model of ios_toolkit's restore supervision (ios_toolkit/restore.py):  *)
(* the milestone extractor that scans idevicerestore's output, the         *)
(* preflight checks, and restore() itself with its child process, its      *)
(* background output worker and its log file.                              *)
(*                                                                         *)
(* Optional[...] values of the Python code are sequences of length at most *)
(* one: <<>> is None and <<v>> is the value v.  Text is TLA+ strings; one  *)
(* character of a string s is SubSeq(s, i, i).                             *)
(***************************************************************************)
EXTENDS Integers, Sequences, FiniteSets, TLC

VARIABLES
    args,             \* the keyword arguments restore() was called with
    pc,               \* the foreground's position in restore()
    env,              \* what the preflight probes found on this machine
    steps,            \* restore(): steps
    cmd,              \* restore(): cmd, <<>> until _compose_command has run
    rc,               \* restore(): rc
    timeout_occurred, \* restore(): timeout_occurred
    proc,             \* the child process: state, exit code, signals sent
    out,              \* the lines the child has written to its stdout pipe
    wpc,              \* the worker thread's position in _stream_process_output
    wline,            \* the line the worker is working on
    widx,             \* the worker's index into STEP_PATTERNS for that line
    fed,              \* the lines _stream_process_output has taken so far
    progress_steps,   \* _stream_process_output: progress_steps
    seen_steps,       \* _stream_process_output: seen_steps
    fp,               \* the log file handle: "none", "open", "closed"
    logfile,          \* the lines written to the log file
    joined,           \* whether stream_thread.join returned with the worker finished
    outlived,         \* the child had not exited when timeout_sec elapsed
    result,           \* <<>> until restore() returns, then <<RestoreResult>>
    dev,              \* the call into device.py in progress: its inputs and outcome
    logger,           \* the "ios_toolkit" logger and the calls of configure_logging
    syslog            \* the call of stream_syslog in progress

\* the variables of utils.py and logs.py
otherVars == <<logger, syslog>>

\* the variables of restore()
restoreVars == <<args, pc, env, steps, cmd, rc, timeout_occurred, proc, out, wpc, wline,
                 widx, fed, progress_steps, seen_steps, fp, logfile, joined, outlived,
                 result>>

vars == <<restoreVars, dev, otherVars>>

None == <<>>
Some(v) == <<v>>
\* Python truthiness of an Optional[str]
Truthy(opt) == opt # None /\ opt[1] # ""
\* Python truthiness of an Optional[int]
TruthyInt(opt) == opt # None /\ opt[1] # 0

(***************************************************************************)
(* Text and the regular expressions of STEP_PATTERNS                       *)
(***************************************************************************)
UpperCase == "ABCDEFGHIJKLMNOPQRSTUVWXYZ"
LowerCase == "abcdefghijklmnopqrstuvwxyz"
Digits == "0123456789"

Char(s, i) == SubSeq(s, i, i)

InText(c, s) == \E i \in 1..Len(s) : Char(s, i) = c

\* re.IGNORECASE: both the pattern and the text are compared case-folded
FoldChar(c) ==
    IF InText(c, UpperCase)
    THEN Char(LowerCase, CHOOSE i \in 1..Len(UpperCase) : Char(UpperCase, i) = c)
    ELSE c

RECURSIVE Fold(_)
Fold(s) == IF s = "" THEN "" ELSE FoldChar(Char(s, 1)) \o Fold(SubSeq(s, 2, Len(s)))

\* \w
IsWord(c) == InText(c, UpperCase) \/ InText(c, LowerCase) \/ InText(c, Digits) \/ c = "_"

\* \s
IsSpace(c) == c = " " \/ c = "\t" \/ c = "\n" \/ c = "\r"

\* \b just before position i of s (i = Len(s) + 1 is the end of the text)
Boundary(s, i) ==
    LET before == i > 1 /\ IsWord(Char(s, i - 1))
        after == i <= Len(s) /\ IsWord(Char(s, i))
    IN before # after

\* the literal lit (given in lower case) is at position i of s, ignoring case
LitAt(s, i, lit) ==
    /\ i >= 1
    /\ i + Len(lit) - 1 <= Len(s)
    /\ Fold(SubSeq(s, i, i + Len(lit) - 1)) = lit

Contains(s, lit) == \E i \in 1..Len(s) : LitAt(s, i, lit)

\* r"\bextract"
SearchExtract(s) == \E i \in 1..Len(s) : Boundary(s, i) /\ LitAt(s, i, "extract")

\* r"Sending\s+RestoreImage"
SearchSendRestoreImage(s) ==
    \E i \in 1..Len(s) : \E j \in (i + 8)..Len(s) :
        /\ LitAt(s, i, "sending")
        /\ \A k \in (i + 7)..(j - 1) : IsSpace(Char(s, k))
        /\ LitAt(s, j, "restoreimage")

\* r"\brestore\b"
SearchRestore(s) ==
    \E i \in 1..Len(s) : Boundary(s, i) /\ LitAt(s, i, "restore") /\ Boundary(s, i + 7)

STEP_PATTERNS ==
    <<"extract", "send_restore_image", "restore", "flash", "verify", "reboot", "wipe">>

\* pattern.search(line) for the pattern of STEP_PATTERNS[k]
Search(k, s) ==
    CASE k = 1 -> SearchExtract(s)
      [] k = 2 -> SearchSendRestoreImage(s)
      [] k = 3 -> SearchRestore(s)
      [] k = 4 -> Contains(s, "flashing")
      [] k = 5 -> Contains(s, "verif")
      [] k = 6 -> Contains(s, "reboot")
      [] k = 7 -> Contains(s, "wipe") \/ Contains(s, "erase")
      [] OTHER -> FALSE

\* the lines a child may write, and the lines fed to the extractor alone
ChildLines == {"Extracting firmware", "Flashing and verifying", "done"}
FeedLines ==
    ChildLines \cup {"Extracting more", "Sending RestoreImage now", "RESTORE done",
                     "prerestore_extract", "Rebooting; erase wipe restore"}

\* the patterns that match each line of the model, by Search
Matching == [line \in FeedLines |-> {k \in 1..Len(STEP_PATTERNS) : Search(k, line)}]

Step(name, ok, detail) == [name |-> name, ok |-> ok, detail |-> detail]

\* a changed Fires: the name's membership in seen_steps is not looked at
Fires_IgnoresSeen(k, line, seen) == k \in Matching[line]

\* One turn of the loop over STEP_PATTERNS in _stream_process_output: pattern k
\* fires when its name is not in seen_steps and it matches the line.
Fires(k, line, seen) == STEP_PATTERNS[k] \notin seen /\ k \in Matching[line]

\* The whole loop over STEP_PATTERNS for one line, from pattern k on: the new
\* progress_steps and seen_steps.
RECURSIVE ExtractFrom(_, _, _, _)
ExtractFrom(k, line, prog, seen) ==
    IF k > Len(STEP_PATTERNS) THEN [prog |-> prog, seen |-> seen]
    ELSE IF Fires(k, line, seen)
         THEN ExtractFrom(k + 1, line,
                          Append(prog, Step(STEP_PATTERNS[k], TRUE, None)),
                          seen \cup {STEP_PATTERNS[k]})
         ELSE ExtractFrom(k + 1, line, prog, seen)

(***************************************************************************)
(* Bounds of the model                                                     *)
(***************************************************************************)
\* the child writes at most MaxOut lines
MaxOut == 2
\* the extractor alone is fed at most MaxFeed lines
MaxFeed == 3

(***************************************************************************)
(* Constants of restore.py                                                 *)
(***************************************************************************)
VALIDATION_STEPS ==
    {"check_idevicerestore", "ipsw_exists", "ipsw_validated", "disk_free_gb",
     "preflight", "resolve_latest_ipsw"}

OPTIONAL_CHECKS == {"amds_running", "device_info"}

\* preflight_checks(min_disk_gb = 10)
MIN_DISK_GB == 10

(***************************************************************************)
(* Helpers of restore.py                                                   *)
(***************************************************************************)
RECURSIVE Join(_, _)
\* sep.join(parts)
Join(parts, sep) ==
    IF parts = <<>> THEN ""
    ELSE IF Len(parts) = 1 THEN parts[1]
    ELSE parts[1] \o sep \o Join(Tail(parts), sep)

\* the value of key in a check's keyword arguments, None when absent
Get(info, key) ==
    IF \E i \in 1..Len(info) : info[i][1] = key
    THEN info[CHOOSE i \in 1..Len(info) : info[i][1] = key][2]
    ELSE None

\* add_check's entry: the keyword arguments that are None are dropped
Entry(name, ok, info) ==
    [name |-> name, ok |-> ok, info |-> SelectSeq(info, LAMBDA kv : kv[2] # None)]

DetailKeys == <<"error", "detail", "path", "value", "suffix", "size", "threshold">>

RECURSIVE DetailParts(_, _)
DetailParts(entry, k) ==
    IF k > Len(DetailKeys) THEN <<>>
    ELSE LET v == Get(entry.info, DetailKeys[k])
         IN (IF v # None /\ v # Some("")
             THEN <<DetailKeys[k] \o "=" \o v[1]>>
             ELSE <<>>) \o DetailParts(entry, k + 1)

\* _format_detail
FormatDetail(entry) ==
    LET parts == DetailParts(entry, 1)
    IN IF parts # <<>> THEN Some(Join(parts, ", ")) ELSE None

RECURSIVE SubNonWord(_)
\* re.sub(r"[^\w.-]", "_", value)
SubNonWord(s) ==
    IF s = "" THEN ""
    ELSE (IF IsWord(Char(s, 1)) \/ Char(s, 1) = "." \/ Char(s, 1) = "-"
          THEN Char(s, 1) ELSE "_") \o SubNonWord(SubSeq(s, 2, Len(s)))

\* _sanitize_udid
SanitizeUdid(udid) == IF ~Truthy(udid) THEN "unknown" ELSE SubNonWord(udid[1])

\* _compose_log_path, under the default base directory and a fixed timestamp
ComposeLogPath(udid) == "logs/" \o SanitizeUdid(udid) \o "/restore-TS.log"

\* a changed _compose_command: the "-u" switch and its value are left out
ComposeCommand_DropsUdid(udid, ipsw_path, wipe) ==
    <<"idevicerestore">> \o <<IF wipe THEN "-w" ELSE "-r">> \o <<ipsw_path>>

\* _compose_command
ComposeCommand(udid, ipsw_path, wipe) ==
    <<"idevicerestore">> \o <<IF wipe THEN "-w" ELSE "-r">>
        \o (IF Truthy(udid) THEN <<"-u", udid[1]>> ELSE <<>>)
        \o <<ipsw_path>>

\* _build_result
BuildResult(status, a, stepList, duration) ==
    [status |-> status, udid |-> a.udid, ipsw |-> a.ipsw_path, wipe |-> a.wipe,
     steps |-> stepList, logfile |-> Some(ComposeLogPath(a.udid)),
     started_at |-> Some("started"), finished_at |-> Some("finished"),
     duration_sec |-> Some(duration)]

\* a changed is_validation_failure: any failed Step counts
IsValidationFailure_AnyFailedStep(res) ==
    \E i \in 1..Len(res.steps) : ~res.steps[i].ok

\* is_validation_failure
IsValidationFailure(res) ==
    \E i \in 1..Len(res.steps) :
        res.steps[i].name \in VALIDATION_STEPS /\ ~res.steps[i].ok

\* a changed flash: every failure exits with 1
FlashExitCode_OneForAnyFailure(res) == IF res.status # "success" THEN 1 ELSE 0

\* cli.flash: the exit code raised for the result of restore()
FlashExitCode(res) ==
    IF res.status # "success"
    THEN (IF IsValidationFailure(res) THEN 2 ELSE 1)
    ELSE 0

(***************************************************************************)
(* preflight_checks                                                        *)
(***************************************************************************)
\* What the probes of preflight_checks can find, for the arguments a:
\*   have_restore  shutil.which("idevicerestore") found the tool
\*   exists        Path(ipsw_path).exists()
\*   validation    ipsw.validate_ipsw: "ok", "bad" (ok is False), or "raise"
\*                 (the file exists and cannot be opened for reading)
\*   free_gb       shutil.disk_usage: the free gigabytes, None when it raised
\*   amds          the service query: "running", "stopped", "error" (it raised)
\*   device_info   device.get_info returned a device
Envs(a) ==
    {e \in [have_restore : BOOLEAN, exists : BOOLEAN,
            validation : {"none", "ok", "bad", "raise"},
            free_gb : {None, Some(5), Some(150)},
            amds : {"running", "stopped", "error"},
            device_info : BOOLEAN] :
        /\ e.exists => Truthy(a.ipsw_path)
        /\ e.validation = "none" <=> ~e.exists
        /\ e.device_info => Truthy(a.udid)}

\* validate_ipsw raises out of preflight_checks
PreflightRaises(e) == e.validation = "raise"

CheckTool(e) == Entry("check_idevicerestore", e.have_restore, <<>>)

CheckIpswExists(ipsw_path, e) ==
    IF ~Truthy(ipsw_path)
    THEN Entry("ipsw_exists", FALSE, <<<<"error", Some("no IPSW path provided")>>>>)
    ELSE Entry("ipsw_exists", e.exists, <<<<"path", ipsw_path>>>>)

CheckIpswValidated(ipsw_path, e) ==
    IF e.exists
    THEN Entry("ipsw_validated", e.validation = "ok",
               <<<<"sha1", IF e.validation = "ok" THEN Some("da39a3") ELSE None>>,
                 <<"size", Some("1024")>>,
                 <<"has_manifest", Some("True")>>,
                 <<"error", IF e.validation = "ok" THEN None
                            ELSE Some("IPSW is not a valid ZIP archive")>>>>)
    ELSE Entry("ipsw_validated", FALSE, <<<<"error", Some("IPSW not found")>>>>)

\* ipsw_validated is added only when an ipsw_path was given
HasValidatedCheck(ipsw_path) == Truthy(ipsw_path)

CheckDisk(e) ==
    IF e.free_gb = None
    THEN Entry("disk_free_gb", FALSE, <<<<"error", Some("disk_usage failed")>>>>)
    ELSE LET disk_ok == e.free_gb[1] >= MIN_DISK_GB
         IN Entry("disk_free_gb", disk_ok,
                  <<<<"value", Some(ToString(e.free_gb[1]))>>,
                    <<"threshold", Some(ToString(MIN_DISK_GB))>>,
                    <<"error", IF disk_ok THEN None
                               ELSE Some("free space " \o ToString(e.free_gb[1])
                                         \o "GB below minimum "
                                         \o ToString(MIN_DISK_GB) \o "GB")>>>>)

CheckAmds(e) ==
    IF e.amds = "error"
    THEN Entry("amds_running", FALSE, <<<<"error", Some("sc not found")>>>>)
    ELSE Entry("amds_running", e.amds = "running",
               <<<<"detail", Some(IF e.amds = "running" THEN "running" ELSE "stopped")>>>>)

CheckDeviceInfo(e) ==
    Entry("device_info", e.device_info,
          <<<<"detail", IF e.device_info THEN Some("{product_type, product_version}")
                        ELSE None>>>>)

\* the checks list, in the order add_check is called
PreflightCheckList(udid, ipsw_path, e) ==
    <<CheckTool(e), CheckIpswExists(ipsw_path, e)>>
        \o (IF HasValidatedCheck(ipsw_path)
            THEN <<CheckIpswValidated(ipsw_path, e)>> ELSE <<>>)
        \o <<CheckDisk(e), CheckAmds(e), CheckDeviceInfo(e)>>

\* a changed add_check: a failed optional check is appended to errors too
IsError_CountsOptional(entry) == ~entry.ok

\* add_check appends to errors when the check failed and is not optional
IsError(entry) == ~entry.ok /\ entry.name \notin OPTIONAL_CHECKS

ErrorOf(entry) ==
    LET err == Get(entry.info, "error")
        det == Get(entry.info, "detail")
    IN [name |-> entry.name,
        message |-> IF Truthy(err) THEN err[1] ELSE IF Truthy(det) THEN det[1] ELSE ""]

\* a changed aggregate: the disk check is treated as optional
OverallOk_SkipsDisk(checks) ==
    \A i \in 1..Len(checks) :
        checks[i].name \notin (OPTIONAL_CHECKS \cup {"disk_free_gb"}) => checks[i].ok

\* all(entry["ok"] for entry in checks if entry["name"] not in OPTIONAL_CHECKS)
OverallOk(checks) ==
    \A i \in 1..Len(checks) : checks[i].name \notin OPTIONAL_CHECKS => checks[i].ok

\* preflight_checks: {"ok", "checks", "errors"}
PreflightChecks(udid, ipsw_path, e) ==
    LET checks == PreflightCheckList(udid, ipsw_path, e)
    IN [ok |-> OverallOk(checks),
        checks |-> checks,
        errors |-> LET failed == SelectSeq(checks, IsError)
                   IN [i \in 1..Len(failed) |-> ErrorOf(failed[i])]]

\* restore(): the Steps of the checks, then the "preflight" Step
EntryStep(entry) == Step(entry.name, entry.ok, FormatDetail(entry))
ErrName(err) == err.name

\* a changed restore(): the "preflight" Step is not appended
PreflightSteps_NoAggregate(pre) == [i \in 1..Len(pre.checks) |-> EntryStep(pre.checks[i])]

PreflightSteps(pre) ==
    [i \in 1..Len(pre.checks) |-> EntryStep(pre.checks[i])]
        \o <<Step("preflight", pre.ok,
                  IF ~pre.ok
                  THEN Some(Join([i \in 1..Len(pre.errors) |-> ErrName(pre.errors[i])], "; "))
                  ELSE None)>>

(***************************************************************************)
(* restore(): the foreground                                               *)
(***************************************************************************)
\* no function of device.py has been called
NoCall == [op |-> "none"]

NoProc == [state |-> "none", code |-> 0, term |-> FALSE, kill |-> FALSE]

\* logging.getLogger("ios_toolkit") in a fresh interpreter: no handler, level
\* NOTSET; no call of configure_logging yet
NoLogger ==
    [level |-> "NOTSET", handlers |-> <<>>, now |-> 0, dirs |-> {}, calls |-> 0,
     first |-> None, last |-> None]

Args ==
    [udid : {None, Some("00008030 A1")},
     ipsw_path : {None, Some("fw.ipsw")},
     latest : BOOLEAN,
     wipe : BOOLEAN,
     preflight_only : BOOLEAN,
     dry_run : BOOLEAN,
     timeout_sec : {None, Some(0), Some(1)}]

Idle ==
    /\ env = None
    /\ steps = <<>>
    /\ cmd = <<>>
    /\ rc = 1
    /\ timeout_occurred = FALSE
    /\ proc = NoProc
    /\ out = <<>>
    /\ wpc = "none"
    /\ wline = ""
    /\ widx = 1
    /\ fed = <<>>
    /\ progress_steps = <<>>
    /\ seen_steps = {}
    /\ fp = "none"
    /\ logfile = <<>>
    /\ joined = FALSE
    /\ outlived = FALSE
    /\ result = None
    /\ dev = NoCall
    /\ logger = NoLogger
    /\ syslog = NoCall

\* restore() has been called with some arguments
Init ==
    /\ args \in Args
    /\ pc = "start"
    /\ Idle

\* int((finished - started).total_seconds()), int(time.time() - t0): some whole
\* number of seconds, here none or one
Elapsed == {0, 1}

Return(status, stepList, durations) ==
    /\ \E d \in durations : result' = Some(BuildResult(status, args, stepList, d))
    /\ steps' = stepList
    /\ pc' = "done"

\* if latest: ... return failure
LatestRejected(a) == a.latest

FgLatest ==
    /\ pc = "start"
    /\ LatestRejected(args)
    /\ Return("failure",
              Append(steps, Step("resolve_latest_ipsw", FALSE,
                                 Some("--latest is not implemented"))),
              {0})
    /\ UNCHANGED <<otherVars, dev, args, env, cmd, rc, timeout_occurred, proc, out, wpc, wline, widx,
                   fed, progress_steps, seen_steps, fp, logfile, joined, outlived>>

\* preflight = preflight_checks(...); steps.append(...) for each check and for "preflight"
FgPreflight ==
    /\ pc = "start"
    /\ ~LatestRejected(args)
    /\ \E e \in Envs(args) :
         /\ env' = Some(e)
         /\ IF PreflightRaises(e)
            THEN pc' = "raised" /\ steps' = steps
            ELSE /\ pc' = "preflight_done"
                 /\ steps' = steps \o PreflightSteps(PreflightChecks(args.udid, args.ipsw_path, e))
    /\ UNCHANGED <<otherVars, dev, args, cmd, rc, timeout_occurred, proc, out, wpc, wline, widx, fed,
                   progress_steps, seen_steps, fp, logfile, joined, outlived, result>>

Preflight == PreflightChecks(args.udid, args.ipsw_path, env[1])

\* if preflight_only: return success or failure by preflight["ok"]
FgPreflightOnly ==
    /\ pc = "preflight_done"
    /\ args.preflight_only
    /\ Return(IF Preflight.ok THEN "success" ELSE "failure", steps, Elapsed)
    /\ UNCHANGED <<otherVars, dev, args, env, cmd, rc, timeout_occurred, proc, out, wpc, wline, widx,
                   fed, progress_steps, seen_steps, fp, logfile, joined, outlived>>

\* if not preflight["ok"]: return failure
FgPreflightFailed ==
    /\ pc = "preflight_done"
    /\ ~args.preflight_only
    /\ ~Preflight.ok
    /\ Return("failure", steps, Elapsed)
    /\ UNCHANGED <<otherVars, dev, args, env, cmd, rc, timeout_occurred, proc, out, wpc, wline, widx,
                   fed, progress_steps, seen_steps, fp, logfile, joined, outlived>>

\* cmd = _compose_command(...)
FgCompose ==
    /\ pc = "preflight_done"
    /\ ~args.preflight_only
    /\ Preflight.ok
    /\ args.ipsw_path # None
    /\ cmd' = ComposeCommand(args.udid, args.ipsw_path[1], args.wipe)
    /\ pc' = "composed"
    /\ UNCHANGED <<otherVars, dev, args, env, steps, rc, timeout_occurred, proc, out, wpc, wline, widx,
                   fed, progress_steps, seen_steps, fp, logfile, joined, outlived, result>>

\* if dry_run: the "compose_cmd" Step, return success
FgDryRun ==
    /\ pc = "composed"
    /\ args.dry_run
    /\ Return("success", Append(steps, Step("compose_cmd", TRUE, Some(Join(cmd, " ")))),
              Elapsed)
    /\ UNCHANGED <<otherVars, dev, args, env, cmd, rc, timeout_occurred, proc, out, wpc, wline, widx,
                   fed, progress_steps, seen_steps, fp, logfile, joined, outlived>>

\* log_path.parent.mkdir(parents=True, exist_ok=True): outside any try, an
\* OSError leaves restore()
FgMkdir ==
    /\ pc = "composed"
    /\ ~args.dry_run
    /\ \E made \in BOOLEAN : pc' = IF made THEN "popen" ELSE "raised"
    /\ UNCHANGED <<otherVars, dev, args, env, steps, cmd, rc, timeout_occurred, proc, out, wpc, wline,
                   widx, fed, progress_steps, seen_steps, fp, logfile, joined, outlived,
                   result>>

\* process = subprocess.Popen(cmd, ...)
FgPopen ==
    /\ pc = "popen"
    /\ proc' = [NoProc EXCEPT !.state = "running"]
    /\ pc' = "open"
    /\ UNCHANGED <<otherVars, dev, args, env, steps, cmd, rc, timeout_occurred, out, wpc, wline, widx,
                   fed, progress_steps, seen_steps, fp, logfile, joined, outlived, result>>

\* except Exception as exc: the "idevicerestore" Step with str(exc), return failure
FgPopenFails ==
    /\ pc = "popen"
    /\ Return("failure",
              Append(steps, Step("idevicerestore", FALSE,
                                 Some("[Errno 2] No such file or directory"))),
              Elapsed)
    /\ UNCHANGED <<otherVars, dev, args, env, cmd, rc, timeout_occurred, proc, out, wpc, wline, widx,
                   fed, progress_steps, seen_steps, fp, logfile, joined, outlived>>

\* with log_path.open("w") as fp: stream_thread = Thread(...); stream_thread.start()
FgOpenLog ==
    /\ pc = "open"
    /\ fp' = "open"
    /\ logfile' = <<>>
    /\ wpc' = "read"
    /\ pc' = "wait"
    /\ UNCHANGED <<otherVars, dev, args, env, steps, cmd, rc, timeout_occurred, proc, out, wline, widx,
                   fed, progress_steps, seen_steps, joined, outlived, result>>

\* log_path.open raises: outside any try, the OSError leaves restore()
FgOpenLogFails ==
    /\ pc = "open"
    /\ pc' = "raised"
    /\ UNCHANGED <<otherVars, dev, args, env, steps, cmd, rc, timeout_occurred, proc, out, wpc, wline,
                   widx, fed, progress_steps, seen_steps, fp, logfile, joined, outlived,
                   result>>

\* the wait is bounded only when timeout_sec is truthy
WaitBounded(a) == TruthyInt(a.timeout_sec)

\* process.wait(timeout=timeout_sec) if timeout_sec else process.wait() is called.
\* A timeout_sec of 0 has elapsed at this moment.
FgWaitCall ==
    /\ pc = "wait"
    /\ pc' = "waiting"
    /\ outlived' = (args.timeout_sec = Some(0) /\ proc.state = "running")
    /\ UNCHANGED <<otherVars, dev, args, env, steps, cmd, rc, timeout_occurred, proc, out, wpc, wline,
                   widx, fed, progress_steps, seen_steps, fp, logfile, joined, result>>

\* rc = process.wait(...): the child has exited
FgWaitReturns ==
    /\ pc = "waiting"
    /\ proc.state = "exited"
    /\ rc' = proc.code
    /\ pc' = "join"
    /\ UNCHANGED <<otherVars, dev, args, env, steps, cmd, timeout_occurred, proc, out, wpc, wline, widx,
                   fed, progress_steps, seen_steps, fp, logfile, joined, outlived, result>>

\* except subprocess.TimeoutExpired: timeout_sec elapses and the child is running
FgWaitTimeout ==
    /\ pc = "waiting"
    /\ WaitBounded(args)
    /\ proc.state = "running"
    /\ outlived' = TRUE
    /\ timeout_occurred' = TRUE
    /\ pc' = "terminate"
    /\ UNCHANGED <<otherVars, dev, args, env, steps, cmd, rc, proc, out, wpc, wline, widx, fed,
                   progress_steps, seen_steps, fp, logfile, joined, result>>

\* process.terminate(): SIGTERM, unless the child has been reaped
FgTerminate ==
    /\ pc = "terminate"
    /\ proc' = IF proc.state = "running" THEN [proc EXCEPT !.term = TRUE] ELSE proc
    /\ pc' = "wait5"
    /\ UNCHANGED <<otherVars, dev, args, env, steps, cmd, rc, timeout_occurred, out, wpc, wline, widx,
                   fed, progress_steps, seen_steps, fp, logfile, joined, outlived, result>>

\* process.terminate() raises while the child runs (the signal is refused):
\* except Exception: process.kill()
FgTerminateFails ==
    /\ pc = "terminate"
    /\ proc.state = "running"
    /\ proc' = [proc EXCEPT !.kill = TRUE]
    /\ pc' = "join"
    /\ UNCHANGED <<otherVars, dev, args, env, steps, cmd, rc, timeout_occurred, out, wpc, wline, widx,
                   fed, progress_steps, seen_steps, fp, logfile, joined, outlived, result>>

\* process.wait(timeout=5) returns: its value is dropped, rc stays as it was
FgWait5Returns ==
    /\ pc = "wait5"
    /\ proc.state = "exited"
    /\ pc' = "join"
    /\ UNCHANGED <<otherVars, dev, args, env, steps, cmd, rc, timeout_occurred, proc, out, wpc, wline,
                   widx, fed, progress_steps, seen_steps, fp, logfile, joined, outlived,
                   result>>

\* a changed restore(): process.kill() follows the bounded wait in any case
FgKill_Always ==
    /\ pc = "wait5"
    /\ proc' = [proc EXCEPT !.kill = TRUE]
    /\ pc' = "join"
    /\ UNCHANGED <<otherVars, dev, args, env, steps, cmd, rc, timeout_occurred, out, wpc, wline,
                   widx, fed, progress_steps, seen_steps, fp, logfile, joined, outlived, result>>

\* process.wait(timeout=5) raises TimeoutExpired: except Exception: process.kill()
FgKill ==
    /\ pc = "wait5"
    /\ proc.state = "running"
    /\ proc' = [proc EXCEPT !.kill = TRUE]
    /\ pc' = "join"
    /\ UNCHANGED <<otherVars, dev, args, env, steps, cmd, rc, timeout_occurred, out, wpc, wline, widx,
                   fed, progress_steps, seen_steps, fp, logfile, joined, outlived, result>>

WorkerFinished == wpc \in {"done", "crashed"}

\* a changed restore(): stream_thread.join() without a bound
FgJoin_Unbounded ==
    /\ pc = "join"
    /\ WorkerFinished
    /\ joined' = TRUE
    /\ pc' = "close"
    /\ UNCHANGED <<otherVars, dev, args, env, steps, cmd, rc, timeout_occurred, proc, out, wpc, wline,
                   widx, fed, progress_steps, seen_steps, fp, logfile, outlived, result>>

\* finally: stream_thread.join(timeout=5), whether or not the worker has finished
FgJoin ==
    /\ pc = "join"
    /\ joined' = WorkerFinished
    /\ pc' = "close"
    /\ UNCHANGED <<otherVars, dev, args, env, steps, cmd, rc, timeout_occurred, proc, out, wpc, wline,
                   widx, fed, progress_steps, seen_steps, fp, logfile, outlived, result>>

\* leaving the with block closes fp
FgClose ==
    /\ pc = "close"
    /\ fp' = "closed"
    /\ pc' = "finalize"
    /\ UNCHANGED <<otherVars, dev, args, env, steps, cmd, rc, timeout_occurred, proc, out, wpc, wline,
                   widx, fed, progress_steps, seen_steps, logfile, joined, outlived,
                   result>>

\* rc = 1 if rc == 0 else rc, on the timeout path
FinalRc == IF timeout_occurred THEN (IF rc = 0 THEN 1 ELSE rc) ELSE rc

\* a changed restore(): the milestones are added after the terminal Step
FinalSteps_TerminalBeforeMilestones ==
    steps
        \o (IF timeout_occurred
            THEN <<Step("timeout", FALSE, Some(ToString(args.timeout_sec[1]) \o "s"))>>
            ELSE <<>>)
        \o <<Step("idevicerestore", FinalRc = 0, Some("rc=" \o ToString(FinalRc)))>>
        \o progress_steps

\* a changed restore(): steps.extend(progress_steps) is left out
FinalSteps_WithoutMilestones ==
    steps
        \o (IF timeout_occurred
            THEN <<Step("timeout", FALSE, Some(ToString(args.timeout_sec[1]) \o "s"))>>
            ELSE <<>>)
        \o <<Step("idevicerestore", FinalRc = 0, Some("rc=" \o ToString(FinalRc)))>>

\* steps.extend(progress_steps); the "timeout" Step; the "idevicerestore" Step
FinalSteps ==
    steps \o progress_steps
        \o (IF timeout_occurred
            THEN <<Step("timeout", FALSE, Some(ToString(args.timeout_sec[1]) \o "s"))>>
            ELSE <<>>)
        \o <<Step("idevicerestore", FinalRc = 0, Some("rc=" \o ToString(FinalRc)))>>

\* a changed restore(): the status looks at the timeout only, not at rc
FinalStatus_IgnoresRc == IF timeout_occurred THEN "failure" ELSE "success"

\* status = "success" if rc == 0 else "failure"
FinalStatus == IF FinalRc = 0 THEN "success" ELSE "failure"

FgFinalize ==
    /\ pc = "finalize"
    /\ rc' = FinalRc
    /\ Return(FinalStatus, FinalSteps, Elapsed)
    /\ UNCHANGED <<otherVars, dev, args, env, cmd, timeout_occurred, proc, out, wpc, wline, widx, fed,
                   progress_steps, seen_steps, fp, logfile, joined, outlived>>

(***************************************************************************)
(* The child process                                                       *)
(***************************************************************************)
\* idevicerestore writes a line to its stdout/stderr pipe
ChildEmit ==
    /\ proc.state = "running"
    /\ Len(out) < MaxOut
    /\ \E line \in ChildLines : out' = Append(out, line)
    /\ UNCHANGED <<otherVars, dev, args, pc, env, steps, cmd, rc, timeout_occurred, proc, wpc, wline,
                   widx, fed, progress_steps, seen_steps, fp, logfile, joined, outlived,
                   result>>

\* the exit codes Popen can report: the child's own, or minus the signal that ended it
ExitCodes(p) == {0, 1} \cup (IF p.term THEN {-15} ELSE {}) \cup (IF p.kill THEN {-9} ELSE {})

ChildExit ==
    /\ proc.state = "running"
    /\ \E code \in ExitCodes(proc) : proc' = [proc EXCEPT !.state = "exited", !.code = code]
    /\ UNCHANGED <<otherVars, dev, args, pc, env, steps, cmd, rc, timeout_occurred, out, wpc, wline, widx,
                   fed, progress_steps, seen_steps, fp, logfile, joined, outlived, result>>

(***************************************************************************)
(* _stream_process_output: the worker thread                               *)
(***************************************************************************)
\* for line in iter(process.stdout.readline, ""): the next line of the pipe
WorkerRead ==
    /\ wpc = "read"
    /\ Len(fed) < Len(out)
    /\ wline' = out[Len(fed) + 1]
    /\ fed' = Append(fed, out[Len(fed) + 1])
    /\ wpc' = "write"
    /\ UNCHANGED <<otherVars, dev, args, pc, env, steps, cmd, rc, timeout_occurred, proc, out, widx,
                   progress_steps, seen_steps, fp, logfile, joined, outlived, result>>

\* readline returns "": the pipe is drained and the child has exited
WorkerEof ==
    /\ wpc = "read"
    /\ Len(fed) = Len(out)
    /\ proc.state = "exited"
    /\ wpc' = "done"
    /\ UNCHANGED <<otherVars, dev, args, pc, env, steps, cmd, rc, timeout_occurred, proc, out, wline,
                   widx, fed, progress_steps, seen_steps, fp, logfile, joined, outlived,
                   result>>

\* a changed _stream_process_output: only the lines that fire a milestone are
\* written to the log
WorkerWrite_OnlyFiring ==
    /\ wpc = "write"
    /\ IF fp = "open"
       THEN /\ logfile' = IF \E k \in 1..Len(STEP_PATTERNS) : Fires(k, wline, seen_steps)
                          THEN Append(logfile, wline) ELSE logfile
            /\ wpc' = "match"
            /\ widx' = 1
       ELSE logfile' = logfile /\ wpc' = "crashed" /\ widx' = widx
    /\ UNCHANGED <<otherVars, dev, args, pc, env, steps, cmd, rc, timeout_occurred, proc, out, wline,
                   fed, progress_steps, seen_steps, fp, joined, outlived, result>>

\* log_file.write(line); log_file.flush(): a ValueError on a closed file ends the thread
WorkerWrite ==
    /\ wpc = "write"
    /\ IF fp = "open"
       THEN logfile' = Append(logfile, wline) /\ wpc' = "match" /\ widx' = 1
       ELSE logfile' = logfile /\ wpc' = "crashed" /\ widx' = widx
    /\ UNCHANGED <<otherVars, dev, args, pc, env, steps, cmd, rc, timeout_occurred, proc, out, wline,
                   fed, progress_steps, seen_steps, fp, joined, outlived, result>>

\* the patterns from k on that fire on the line
Firing(k, line, seen) == {j \in k..Len(STEP_PATTERNS) : Fires(j, line, seen)}

Min(S) == CHOOSE x \in S : \A y \in S : x <= y

\* for name, pattern in STEP_PATTERNS: the loop runs to the next append
WorkerMatch ==
    /\ wpc = "match"
    /\ Firing(widx, wline, seen_steps) # {}
    /\ LET k == Min(Firing(widx, wline, seen_steps))
       IN /\ progress_steps' = Append(progress_steps, Step(STEP_PATTERNS[k], TRUE, None))
          /\ seen_steps' = seen_steps \cup {STEP_PATTERNS[k]}
          /\ widx' = k + 1
    /\ UNCHANGED <<otherVars, dev, args, pc, env, steps, cmd, rc, timeout_occurred, proc, out, wpc, wline,
                   fed, fp, logfile, joined, outlived, result>>

\* the loop over STEP_PATTERNS ends; log.debug; back to readline
WorkerNextLine ==
    /\ wpc = "match"
    /\ Firing(widx, wline, seen_steps) = {}
    /\ wpc' = "read"
    /\ widx' = 1
    /\ UNCHANGED <<otherVars, dev, args, pc, env, steps, cmd, rc, timeout_occurred, proc, out, wline,
                   fed, progress_steps, seen_steps, fp, logfile, joined, outlived, result>>

(***************************************************************************)
(* Specifications                                                          *)
(***************************************************************************)
Foreground ==
    \/ FgLatest
    \/ FgPreflight
    \/ FgPreflightOnly
    \/ FgPreflightFailed
    \/ FgCompose
    \/ FgDryRun
    \/ FgMkdir
    \/ FgPopen
    \/ FgPopenFails
    \/ FgOpenLog
    \/ FgOpenLogFails
    \/ FgWaitCall
    \/ FgWaitReturns
    \/ FgWaitTimeout
    \/ FgTerminate
    \/ FgTerminateFails
    \/ FgWait5Returns
    \/ FgKill
    \/ FgJoin
    \/ FgClose
    \/ FgFinalize

Child == ChildEmit \/ ChildExit

Worker == WorkerRead \/ WorkerEof \/ WorkerWrite \/ WorkerMatch \/ WorkerNextLine

Next == Foreground \/ Child \/ Worker

\* one call of restore()
Spec == Init /\ [][Next]_vars

\* restore() from line 315 on: the preflight has passed on a machine where
\* every probe is in order and the command line is composed
SupervisedArgs ==
    {a \in Args : /\ ~a.latest /\ ~a.preflight_only /\ ~a.dry_run
                  /\ a.udid = None /\ a.ipsw_path # None /\ a.wipe}

SoundEnv ==
    [have_restore |-> TRUE, exists |-> TRUE, validation |-> "ok", free_gb |-> Some(150),
     amds |-> "running", device_info |-> FALSE]

InitSupervise ==
    /\ args \in SupervisedArgs
    /\ pc = "popen"
    /\ env = Some(SoundEnv)
    /\ steps = PreflightSteps(PreflightChecks(args.udid, args.ipsw_path, SoundEnv))
    /\ cmd = ComposeCommand(args.udid, args.ipsw_path[1], args.wipe)
    /\ rc = 1
    /\ timeout_occurred = FALSE
    /\ proc = NoProc
    /\ out = <<>>
    /\ wpc = "none"
    /\ wline = ""
    /\ widx = 1
    /\ fed = <<>>
    /\ progress_steps = <<>>
    /\ seen_steps = {}
    /\ fp = "none"
    /\ logfile = <<>>
    /\ joined = FALSE
    /\ outlived = FALSE
    /\ result = None
    /\ dev = NoCall
    /\ logger = NoLogger
    /\ syslog = NoCall

\* the foreground from the spawn to the return
Supervise ==
    \/ FgPopen
    \/ FgPopenFails
    \/ FgOpenLog
    \/ FgOpenLogFails
    \/ FgWaitCall
    \/ FgWaitReturns
    \/ FgWaitTimeout
    \/ FgTerminate
    \/ FgTerminateFails
    \/ FgWait5Returns
    \/ FgKill
    \/ FgJoin
    \/ FgClose
    \/ FgFinalize

NextSupervise == Supervise \/ Child \/ Worker

\* The supervision of one child, with the foreground thread kept running: the
\* interpreter schedules it whenever it can take a step.  Nothing is assumed of
\* the child, which may never exit, nor of the worker, which may stay blocked
\* in readline.
SpecSupervise == InitSupervise /\ [][NextSupervise]_vars /\ WF_vars(Supervise)

\* The extractor alone: the loop body of _stream_process_output on lines drawn
\* from FeedLines, without a process or a log file.
InitExtract ==
    /\ args = [udid |-> None, ipsw_path |-> None, latest |-> FALSE, wipe |-> TRUE,
               preflight_only |-> FALSE, dry_run |-> FALSE, timeout_sec |-> None]
    /\ pc = "extract"
    /\ Idle

Feed ==
    /\ pc = "extract"
    /\ Len(fed) < MaxFeed
    /\ \E line \in FeedLines :
         LET r == ExtractFrom(1, line, progress_steps, seen_steps)
         IN /\ fed' = Append(fed, line)
            /\ wline' = line
            /\ progress_steps' = r.prog
            /\ seen_steps' = r.seen
    /\ UNCHANGED <<otherVars, dev, args, pc, env, steps, cmd, rc, timeout_occurred, proc, out, wpc, widx,
                   fp, logfile, joined, outlived, result>>

SpecExtract == InitExtract /\ [][Feed]_vars

(***************************************************************************)
(* device.py: values, text and the normalisation of a raw property map     *)
(*                                                                         *)
(* A value of a raw property map is a record tagged with its Python type;  *)
(* a raw map is a function from the keys it holds to such values.          *)
(***************************************************************************)
Bool(b) == [t |-> "bool", b |-> b, n |-> 0, s |-> ""]
Num(n) == [t |-> "num", b |-> FALSE, n |-> n, s |-> ""]
Str(s) == [t |-> "str", b |-> FALSE, n |-> 0, s |-> s]

\* the empty dict
EmptyRaw == [k \in {} |-> Str("")]

\* raw.get(key)
RawGet(raw, key) == IF key \in DOMAIN raw THEN Some(raw[key]) ELSE None

\* raw with raw[key] = value
RawSet(raw, key, value) ==
    [k \in DOMAIN raw \cup {key} |-> IF k = key THEN value ELSE raw[k]]

\* bool(value) of an optional value
PyTruthy(opt) ==
    /\ opt # None
    /\ CASE opt[1].t = "bool" -> opt[1].b
         [] opt[1].t = "num" -> opt[1].n # 0
         [] OTHER -> opt[1].s # ""

\* a or b
PyOr(a, b) == IF PyTruthy(a) THEN a ELSE b

\* str(value)
PyStr(v) ==
    CASE v.t = "bool" -> (IF v.b THEN "True" ELSE "False")
      [] v.t = "num" -> ToString(v.n)
      [] OTHER -> v.s

RECURSIVE LStrip(_)
LStrip(s) == IF s # "" /\ IsSpace(Char(s, 1)) THEN LStrip(SubSeq(s, 2, Len(s))) ELSE s

RECURSIVE RStrip(_)
RStrip(s) ==
    IF s # "" /\ IsSpace(Char(s, Len(s))) THEN RStrip(SubSeq(s, 1, Len(s) - 1)) ELSE s

\* s.strip()
Strip(s) == RStrip(LStrip(s))

\* the characters of the model's identifiers and tool names, by code point
CodePoints == " ,-.0123456789:ABCDEFGHIJKLMNOPQRSTUVWXYZ_abcdefghijklmnopqrstuvwxyz"

Ord(c) == CHOOSE i \in 1..Len(CodePoints) : Char(CodePoints, i) = c

RECURSIVE StrLess(_, _)
\* s < t for two str
StrLess(s, t) ==
    IF t = "" THEN FALSE
    ELSE IF s = "" THEN TRUE
    ELSE IF Char(s, 1) = Char(t, 1) THEN StrLess(SubSeq(s, 2, Len(s)), SubSeq(t, 2, Len(t)))
    ELSE Ord(Char(s, 1)) < Ord(Char(t, 1))

RECURSIVE SortedSet(_)
\* sorted(S) for a set of str
SortedSet(S) ==
    IF S = {} THEN <<>>
    ELSE LET least == CHOOSE x \in S : \A y \in S \ {x} : StrLess(x, y)
         IN <<least>> \o SortedSet(S \ {least})

\* sorted(seq) for a sequence of distinct str
Sorted(seq) == SortedSet({seq[i] : i \in 1..Len(seq)})

\* _detect_mode._truthy: None is no bool, number or str and gives False
FlagTruthy(opt) ==
    /\ opt # None
    /\ CASE opt[1].t = "bool" -> opt[1].b
         [] opt[1].t = "num" -> opt[1].n # 0
         [] OTHER -> Fold(Strip(opt[1].s)) \in {"1", "true", "yes"}

\* a changed _detect_mode: the version field is looked at before the flags
DetectMode_VersionFirst(raw) ==
    IF PyTruthy(RawGet(raw, "ProductVersion")) THEN "normal"
    ELSE IF FlagTruthy(RawGet(raw, "DFUMode")) THEN "dfu"
    ELSE IF FlagTruthy(RawGet(raw, "RecoveryMode")) THEN "recovery"
    ELSE "unknown"

\* _detect_mode
DetectMode(raw) ==
    IF \/ FlagTruthy(RawGet(raw, "DFUMode"))
       \/ FlagTruthy(Some(Bool(RawGet(raw, "DeviceMode") = Some(Str("dfu")))))
    THEN "dfu"
    ELSE IF \/ FlagTruthy(RawGet(raw, "RecoveryMode"))
            \/ FlagTruthy(RawGet(raw, "IsInRecoveryMode"))
    THEN "recovery"
    ELSE IF PyTruthy(RawGet(raw, "ProductVersion")) THEN "normal"
    ELSE "unknown"

\* a changed _normalize_connection: the lower-cased value is kept as it is
NormalizeConnection_KeepsRaw(value) ==
    IF value = None THEN "unknown" ELSE Fold(Strip(PyStr(value[1])))

\* _normalize_connection
NormalizeConnection(value) ==
    IF value = None THEN "unknown"
    ELSE LET normalized == Fold(Strip(PyStr(value[1])))
         IN IF normalized \in {"usb", "wifi"} THEN normalized ELSE "unknown"

\* _normalize_info; udid and connection are optional values.  Every value of
\* the model's raw maps is a bool, a number or a str, which _json_safe leaves
\* as it is.
NormalizeInfo(raw, udid, connection) ==
    [udid |-> PyOr(PyOr(RawGet(raw, "UniqueDeviceID"), RawGet(raw, "udid")), udid),
     product_type |-> PyOr(RawGet(raw, "ProductType"), RawGet(raw, "product_type")),
     product_version |-> PyOr(RawGet(raw, "ProductVersion"), RawGet(raw, "product_version")),
     device_name |-> PyOr(RawGet(raw, "DeviceName"), RawGet(raw, "device_name")),
     mode |-> DetectMode(raw),
     connection |-> NormalizeConnection(PyOr(RawGet(raw, "ConnectionType"), connection)),
     details |-> raw]

\* _build_device
BuildDevice(raw, udid, connection) == NormalizeInfo(raw, udid, connection)

\* list_devices: the entry synthesized for a device in DFU mode
DfuPlaceholder ==
    [udid |-> None, product_type |-> None, product_version |-> None,
     device_name |-> Some(Str("(DFU device)")), mode |-> "dfu", connection |-> "usb",
     details |-> EmptyRaw]

(***************************************************************************)
(* device.py: errors, discovery, the DFU probe and the detail sources      *)
(***************************************************************************)
\* at most MaxReport devices in the report of one discovery backend
MaxReport == 2

\* the sequences over S of length at most n
SeqsUpTo(S, n) == UNION {[1..k -> S] : k \in 0..n}

NoError == [type |-> "none", exit_code |-> 0, tools |-> <<>>, udids |-> <<>>]

\* DeviceError(message, exit_code = code)
DeviceError(code) ==
    [type |-> "DeviceError", exit_code |-> code, tools |-> <<>>, udids |-> <<>>]

\* DeviceToolMissingError(tools): self.tools = sorted({tool for tool in tools})
DeviceToolMissingError(tools) ==
    [type |-> "DeviceToolMissingError", exit_code |-> 2, tools |-> SortedSet(tools),
     udids |-> <<>>]

NoDevicesError ==
    [type |-> "NoDevicesError", exit_code |-> 3, tools |-> <<>>, udids |-> <<>>]

\* a changed MultipleDevicesError: the identifiers are kept in discovery order
MultipleDevicesError_Unsorted(udids) ==
    [type |-> "MultipleDevicesError", exit_code |-> 4, tools |-> <<>>, udids |-> udids]

\* MultipleDevicesError(udids): udid_list = sorted(udids)
MultipleDevicesError(udids) ==
    [type |-> "MultipleDevicesError", exit_code |-> 4, tools |-> <<>>,
     udids |-> Sorted(udids)]

\* an exception that is no DeviceError, raised out of a function of device.py
OtherError(type) == [type |-> type, exit_code |-> 1, tools |-> <<>>, udids |-> <<>>]

\* What usbmux can report: "missing" is the ImportError of pymobiledevice3,
\* "fails" is mux_list() raising; a device has a serial and a connection_type,
\* either of which may be None.
MuxDevices ==
    {[serial |-> Some("a1"), connection_type |-> Some("USB")],
     [serial |-> Some("a1"), connection_type |-> Some("Network")],
     [serial |-> Some("B2"), connection_type |-> None],
     [serial |-> None, connection_type |-> Some("USB")]}

PymuxWorlds ==
    {[state |-> "missing", devices |-> <<>>], [state |-> "fails", devices |-> <<>>]}
        \cup {[state |-> "ok", devices |-> ds] : ds \in SeqsUpTo(MuxDevices, MaxReport)}

\* What `idevice_id -l` can do: the tool may be absent; _call gives its exit
\* code (127 and -1 stand for _call's own failures) and the lines of its stdout.
IdeviceIdLines == {"a1", " B2 ", "A1", ""}

IdeviceIdWorlds ==
    {[have |-> FALSE, code |-> 0, lines |-> <<>>]}
        \cup {[have |-> TRUE, code |-> c, lines |-> ls] :
                 c \in {0, 1, -1}, ls \in SeqsUpTo(IdeviceIdLines, MaxReport)}

DiscoveryEntry(udid, connection, source) ==
    [udid |-> udid, connection |-> connection, source |-> source]

RECURSIVE MuxEntries(_)
\* the loop over mux_devices in _discover_via_pymobiledevice3
MuxEntries(ds) ==
    IF ds = <<>> THEN <<>>
    ELSE LET udid == Head(ds).serial
             connection_type ==
                 IF Truthy(Head(ds).connection_type)
                 THEN Head(ds).connection_type[1] ELSE "unknown"
         IN (IF ~Truthy(udid) THEN <<>>
             ELSE <<DiscoveryEntry(udid[1], Fold(connection_type), "pymobiledevice3")>>)
                \o MuxEntries(Tail(ds))

\* _discover_via_pymobiledevice3: (discovered, available)
DiscoverViaPymobiledevice3(p) ==
    IF p.state = "missing" THEN [found |-> <<>>, available |-> FALSE]
    ELSE IF p.state = "fails" THEN [found |-> <<>>, available |-> TRUE]
    ELSE [found |-> MuxEntries(p.devices), available |-> TRUE]

RECURSIVE LineEntries(_)
\* the loop over result.stdout.splitlines() in _discover_via_idevice_id
LineEntries(ls) ==
    IF ls = <<>> THEN <<>>
    ELSE LET udid == Strip(Head(ls))
         IN (IF udid # "" THEN <<DiscoveryEntry(udid, "usb", "idevice_id")>> ELSE <<>>)
                \o LineEntries(Tail(ls))

\* _discover_via_idevice_id: (discovered, available)
DiscoverViaIdeviceId(t) ==
    IF ~t.have THEN [found |-> <<>>, available |-> FALSE]
    ELSE IF t.code \notin {0, 1} THEN [found |-> <<>>, available |-> TRUE]
    ELSE [found |-> LineEntries(t.lines), available |-> TRUE]

\* A dict keyed by udid is the sequence of its values in insertion order.
HasKey(d, udid) == \E i \in 1..Len(d) : d[i].udid = udid

\* devices[entry["udid"]] = entry
DictSet(d, entry) ==
    IF HasKey(d, entry.udid)
    THEN [i \in 1..Len(d) |-> IF d[i].udid = entry.udid THEN entry ELSE d[i]]
    ELSE Append(d, entry)

\* a changed setdefault: the later entry replaces the one already there
DictSetDefault_Overwrites(d, entry) == DictSet(d, entry)

\* devices.setdefault(entry["udid"], entry)
DictSetDefault(d, entry) == IF HasKey(d, entry.udid) THEN d ELSE Append(d, entry)

RECURSIVE SetAll(_, _)
SetAll(d, entries) ==
    IF entries = <<>> THEN d ELSE SetAll(DictSet(d, Head(entries)), Tail(entries))

RECURSIVE SetDefaultAll(_, _)
SetDefaultAll(d, entries) ==
    IF entries = <<>> THEN d
    ELSE SetDefaultAll(DictSetDefault(d, Head(entries)), Tail(entries))

\* a changed _discover_devices: any_tool_available needs both backends
AnyToolAvailable_NeedsBoth(pymux_available, idevice_available) ==
    pymux_available /\ idevice_available

\* any_tool_available = pymux_available or idevice_available
AnyToolAvailable(pymux_available, idevice_available) ==
    pymux_available \/ idevice_available

\* _discover_devices: (discovered, missing_tools, any_tool_available)
DiscoverDevices(p, t) ==
    LET pymux == DiscoverViaPymobiledevice3(p)
        idevice == DiscoverViaIdeviceId(t)
    IN [discovered |-> SetDefaultAll(SetAll(<<>>, pymux.found), idevice.found),
        missing_tools |-> IF ~idevice.available THEN <<"idevice_id">> ELSE <<>>,
        any_tool |-> AnyToolAvailable(pymux.available, idevice.available)]

\* _discover_devices() in every world of the model, by DiscoverDevices
Discovery ==
    [p \in PymuxWorlds |-> [t \in IdeviceIdWorlds |-> DiscoverDevices(p, t)]]

\* re.search(r"\b<word>\b", text, re.IGNORECASE), the word given in lower case
SearchWord(text, word) ==
    \E i \in 1..Len(text) :
        Boundary(text, i) /\ LitAt(text, i, word) /\ Boundary(text, i + Len(word))

\* recovery.parse_irecovery_q: a str
ParseIrecoveryQ(text) ==
    IF SearchWord(text, "dfu") THEN "dfu"
    ELSE IF SearchWord(text, "recovery") THEN "recovery"
    ELSE IF SearchWord(text, "normal") THEN "normal"
    ELSE "unknown"

\* What `irecovery -q` can do: the tool may be absent; its exit code (-1 is
\* _call's timeout) and its stdout.
IrecoveryOutputs == {"", "MODE: DFU", "MODE: Recovery", "dfu_mode"}

IrecoveryWorlds ==
    {[have |-> FALSE, code |-> 0, stdout |-> ""]}
        \cup {[have |-> TRUE, code |-> c, stdout |-> o] :
                 c \in {0, 1, -1}, o \in IrecoveryOutputs}

\* detect_dfu.  parsed is the str of parse_irecovery_q, and a str has no
\* attribute get: parsed.get("mode", "") raises AttributeError for every parsed.
DetectDfu(r) ==
    IF ~r.have THEN [error |-> NoError, value |-> FALSE, calls |-> <<>>]
    ELSE IF r.code # 0 \/ r.stdout = ""
    THEN [error |-> NoError, value |-> FALSE, calls |-> <<"irecovery -q">>]
    ELSE LET parsed == ParseIrecoveryQ(r.stdout)
         IN [error |-> OtherError("AttributeError"), value |-> FALSE,
             calls |-> <<"irecovery -q">>]

\* What the lockdown client of pymobiledevice3 can give for one device:
\* "missing" is the ImportError, "fails" is any exception of the session; values
\* is client.all_values and connection_type that of its mux device.  client.udid
\* is the serial the client was created for.
LockdownValues ==
    {EmptyRaw,
     ("ProductType" :> Str("iPhone12,1")) @@ ("ProductVersion" :> Str("17.0"))
         @@ ("DeviceName" :> Str("Demo")),
     ("DFUMode" :> Bool(TRUE)) @@ ("ProductVersion" :> Str("17.0")),
     ("ConnectionType" :> Str("Network")) @@ ("UniqueDeviceID" :> Str("zz")),
     ("ConnectionType" :> Str(" WiFi "))}

LockdownWorlds ==
    {[state |-> "missing", values |-> EmptyRaw, connection_type |-> "unknown"],
     [state |-> "fails", values |-> EmptyRaw, connection_type |-> "unknown"]}
        \cup {[state |-> "ok", values |-> v, connection_type |-> "USB"] :
                 v \in LockdownValues}

\* What `ideviceinfo -u <udid>` can do: the tool may be absent; its exit code
\* and the lines of its stdout.
IdeviceinfoOutputs ==
    {<<>>, <<"  ">>, <<"no separator">>,
     <<"ProductVersion: 17.0", "DeviceName: Demo Phone">>,
     <<"RecoveryMode: 1", "UniqueDeviceID: zz">>}

IdeviceinfoWorlds ==
    {[have |-> FALSE, code |-> 0, lines |-> <<>>]}
        \cup {[have |-> TRUE, code |-> c, lines |-> ls] :
                 c \in {0, 1}, ls \in IdeviceinfoOutputs}

\* what the two detail sources find for one device
DetailWorlds == [lockdown : LockdownWorlds, ideviceinfo : IdeviceinfoWorlds]

\* the detail worlds one candidate of list_devices is fetched in: each source
\* absent, failing or empty, or giving one map
ListDetailWorlds ==
    {d \in DetailWorlds :
        /\ d.lockdown.state = "ok" =>
               d.lockdown.values \in
                   {EmptyRaw, ("DFUMode" :> Bool(TRUE)) @@ ("ProductVersion" :> Str("17.0")),
                    ("ConnectionType" :> Str("Network")) @@ ("UniqueDeviceID" :> Str("zz"))}
        /\ d.ideviceinfo.have =>
               /\ d.ideviceinfo.code = 0
               /\ d.ideviceinfo.lines \in
                      {<<>>, <<"ProductVersion: 17.0", "DeviceName: Demo Phone">>}}

\* raw.setdefault(key, value)
RawSetDefault(raw, key, value) == IF key \in DOMAIN raw THEN raw ELSE RawSet(raw, key, value)

\* line.split(":", 1), for a line that holds a ":"
SplitColon(line) ==
    LET at == Min({i \in 1..Len(line) : Char(line, i) = ":"})
    IN <<SubSeq(line, 1, at - 1), SubSeq(line, at + 1, Len(line))>>

RECURSIVE ParseKvLines(_, _)
\* _parse_kv_text, on the lines of the text
ParseKvLines(lines, data) ==
    IF lines = <<>> THEN data
    ELSE LET line == Strip(Head(lines))
         IN IF line = "" \/ ~InText(":", line) THEN ParseKvLines(Tail(lines), data)
            ELSE LET kv == SplitColon(line)
                 IN ParseKvLines(Tail(lines), RawSet(data, Strip(kv[1]), Str(Strip(kv[2]))))

ParseKvText(lines) == ParseKvLines(lines, EmptyRaw)

\* _get_info_via_pymobiledevice3: Optional[dict]
GetInfoViaPymobiledevice3(udid, l) ==
    IF l.state # "ok" THEN None
    ELSE Some(RawSetDefault(RawSetDefault(l.values, "UniqueDeviceID", Str(udid)),
                            "ConnectionType", Str(l.connection_type)))

\* _get_info_via_ideviceinfo: Optional[dict]
GetInfoViaIdeviceinfo(udid, t) ==
    IF ~t.have THEN None
    ELSE IF t.code # 0 \/ \A i \in 1..Len(t.lines) : Strip(t.lines[i]) = "" THEN None
    ELSE LET data == ParseKvText(t.lines)
         IN IF udid # "" /\ ~PyTruthy(RawGet(data, "UniqueDeviceID"))
            THEN Some(RawSet(data, "UniqueDeviceID", Str(udid)))
            ELSE Some(data)

\* if raw_info: a dict is true when it is not empty
DictTruthy(opt) == opt # None /\ DOMAIN opt[1] # {}

\* a changed get_info: a missing ideviceinfo is reported as the generic error
FetchFailure_AlwaysGeneric(t) == DeviceError(6)

\* get_info, lines 332-338: what is raised when both sources gave nothing
FetchFailure(t) ==
    IF ~t.have THEN DeviceToolMissingError({"ideviceinfo"}) ELSE DeviceError(6)

\* get_info from line 321 on, for the identifier udid (an optional str):
\* the error raised or the Device returned, and the sources tried, in order
GetInfoOf(udid, d) ==
    IF ~Truthy(udid)
    THEN [error |-> DeviceError(5), device |-> <<>>, tried |-> <<>>]
    ELSE LET structured == GetInfoViaPymobiledevice3(udid[1], d.lockdown)
             fallback == GetInfoViaIdeviceinfo(udid[1], d.ideviceinfo)
         IN IF DictTruthy(structured)
            THEN [error |-> NoError,
                  device |-> <<BuildDevice(structured[1], Some(Str(udid[1])), None)>>,
                  tried |-> <<"pymobiledevice3">>]
            ELSE IF DictTruthy(fallback)
            THEN [error |-> NoError,
                  device |-> <<BuildDevice(fallback[1], Some(Str(udid[1])),
                                           Some(Str("usb")))>>,
                  tried |-> <<"pymobiledevice3", "ideviceinfo">>]
            ELSE [error |-> FetchFailure(d.ideviceinfo), device |-> <<>>,
                  tried |-> <<"pymobiledevice3", "ideviceinfo">>]

(***************************************************************************)
(* device.py: the calls.  Every call is stateless; dev holds the call in   *)
(* progress, what it found so far and, at the end, what it returned or     *)
(* raised.                                                                 *)
(***************************************************************************)
FlagValues ==
    {None, Some(Bool(TRUE)), Some(Bool(FALSE)), Some(Num(0)), Some(Num(2)),
     Some(Str("1")), Some(Str("YES")), Some(Str(" true ")), Some(Str("no"))}

\* the keys _detect_mode reads, each absent (None) or holding a value
ModeChoices ==
    [DFUMode : FlagValues,
     DeviceMode : {None, Some(Str("dfu")), Some(Str("DFU"))},
     RecoveryMode : FlagValues,
     IsInRecoveryMode : {None, Some(Bool(TRUE))},
     ProductVersion : {None, Some(Str("")), Some(Str("17.0"))}]

\* the raw map holding the keys that the choice gives a value
RawOf(choice) == [k \in {key \in DOMAIN choice : choice[key] # None} |-> choice[k][1]]

\* the identifiers a caller passes to get_info
GivenUdids == {None, Some(""), Some("c3")}

Finished == dev.op # "none" /\ dev.at \in {"returned", "raised"}

\* _detect_mode(raw)
CallDetectMode ==
    /\ dev.op = "none"
    /\ \E choice \in ModeChoices :
         dev' = [op |-> "detect_mode", at |-> "returned", raw |-> RawOf(choice),
                 mode |-> DetectMode(RawOf(choice))]
    /\ UNCHANGED <<restoreVars, otherVars>>

\* _discover_devices()
CallDiscover ==
    /\ dev.op = "none"
    /\ \E p \in PymuxWorlds, t \in IdeviceIdWorlds :
         dev' = [op |-> "discover", at |-> "returned", pymux |-> p, idevice |-> t,
                 out |-> Discovery[p][t]]
    /\ UNCHANGED <<restoreVars, otherVars>>

\* detect_dfu()
CallDetectDfu ==
    /\ dev.op = "none"
    /\ \E r \in IrecoveryWorlds :
         LET res == DetectDfu(r)
         IN dev' = [op |-> "detect_dfu",
                    at |-> IF res.error = NoError THEN "returned" ELSE "raised",
                    probe |-> r, value |-> res.value, calls |-> res.calls,
                    error |-> res.error]
    /\ UNCHANGED <<restoreVars, otherVars>>

\* get_info(udid, allow_discovery = allow) is called
GetInfoCall ==
    /\ dev.op = "none"
    /\ \E given \in GivenUdids, allow \in BOOLEAN :
         dev' = [op |-> "get_info", at |-> "resolve", given |-> given, allow |-> allow,
                 consulted |-> FALSE, discovered |-> <<>>, any_tool |-> FALSE,
                 udid |-> given, detail |-> <<>>, tried |-> <<>>, device |-> <<>>,
                 error |-> NoError]
    /\ UNCHANGED <<restoreVars, otherVars>>

\* get_info, lines 311-319: discovery, when no identifier was given
GetInfoDiscover ==
    /\ dev.op = "get_info"
    /\ dev.at = "resolve"
    /\ dev.given = None /\ dev.allow
    /\ \E p \in PymuxWorlds, t \in IdeviceIdWorlds :
         LET found == Discovery[p][t]
             seen == [dev EXCEPT !.consulted = TRUE, !.discovered = found.discovered,
                                 !.any_tool = found.any_tool]
         IN dev' =
              IF found.discovered = <<>>
              THEN [seen EXCEPT !.at = "raised",
                                !.error = IF found.missing_tools # <<>> /\ ~found.any_tool
                                          THEN DeviceToolMissingError(
                                                   {found.missing_tools[i] :
                                                       i \in 1..Len(found.missing_tools)})
                                          ELSE NoDevicesError]
              ELSE IF Len(found.discovered) > 1
              THEN [seen EXCEPT !.at = "raised",
                                !.error = MultipleDevicesError(
                                              [i \in 1..Len(found.discovered) |->
                                                  found.discovered[i].udid])]
              ELSE [seen EXCEPT !.at = "fetch",
                                !.udid = Some(found.discovered[1].udid)]
    /\ UNCHANGED <<restoreVars, otherVars>>

\* get_info: the condition of line 311 is false
GetInfoSkipDiscovery ==
    /\ dev.op = "get_info"
    /\ dev.at = "resolve"
    /\ ~(dev.given = None /\ dev.allow)
    /\ dev' = [dev EXCEPT !.at = "fetch"]
    /\ UNCHANGED <<restoreVars, otherVars>>

\* get_info, lines 321-338
GetInfoFetch ==
    /\ dev.op = "get_info"
    /\ dev.at = "fetch"
    /\ \E d \in DetailWorlds :
         LET res == GetInfoOf(dev.udid, d)
         IN dev' = [dev EXCEPT !.at = IF res.error = NoError THEN "returned" ELSE "raised",
                               !.detail = <<d>>,
                               !.tried = res.tried,
                               !.device = res.device,
                               !.error = res.error]
    /\ UNCHANGED <<restoreVars, otherVars>>

\* list_devices(include_dfu) is called
ListCall ==
    /\ dev.op = "none"
    /\ \E include_dfu \in BOOLEAN :
         dev' = [op |-> "list_devices", at |-> "discover", include_dfu |-> include_dfu,
                 discovered |-> <<>>, missing_tools |-> <<>>, any_tool |-> FALSE,
                 devices |-> <<>>, fetched |-> <<>>, info_missing_tools |-> {},
                 probe |-> <<>>, error |-> NoError]
    /\ UNCHANGED <<restoreVars, otherVars>>

\* list_devices, lines 234-239
ListDiscover ==
    /\ dev.op = "list_devices"
    /\ dev.at = "discover"
    /\ \E p \in PymuxWorlds, t \in IdeviceIdWorlds :
         LET found == Discovery[p][t]
             seen == [dev EXCEPT !.discovered = found.discovered,
                                 !.missing_tools = found.missing_tools,
                                 !.any_tool = found.any_tool]
         IN dev' =
              IF found.discovered = <<>>
              THEN (IF ~found.any_tool /\ found.missing_tools # <<>>
                    THEN [seen EXCEPT !.at = "raised",
                                      !.error = DeviceToolMissingError(
                                                    {found.missing_tools[i] :
                                                        i \in 1..Len(found.missing_tools)})]
                    ELSE [seen EXCEPT !.at = "probe"])
              ELSE [seen EXCEPT !.at = "fetch"]
    /\ UNCHANGED <<restoreVars, otherVars>>

\* _build_device({}, udid=udid, connection=connection)
BareDevice(entry) ==
    BuildDevice(EmptyRaw, Some(Str(entry.udid)), Some(Str(entry.connection)))

\* list_devices, lines 242-256: one turn of the loop over discovered
ListFetch ==
    /\ dev.op = "list_devices"
    /\ dev.at = "fetch"
    /\ Len(dev.devices) < Len(dev.discovered)
    /\ \E d \in ListDetailWorlds :
         LET entry == dev.discovered[Len(dev.devices) + 1]
             res == GetInfoOf(Some(entry.udid), d)
             info ==
                 IF res.error # NoError THEN BareDevice(entry)
                 ELSE IF entry.connection # "" /\ res.device[1].connection = "unknown"
                 THEN [res.device[1] EXCEPT
                          !.connection = NormalizeConnection(Some(Str(entry.connection)))]
                 ELSE res.device[1]
         IN dev' = [dev EXCEPT
                       !.devices = Append(@, info),
                       !.fetched = Append(@, res.error.type),
                       !.info_missing_tools =
                           IF res.error.type = "DeviceToolMissingError"
                           THEN @ \cup {res.error.tools[i] : i \in 1..Len(res.error.tools)}
                           ELSE @]
    /\ UNCHANGED <<restoreVars, otherVars>>

\* list_devices, lines 258-259: after the loop
ListAfterLoop ==
    /\ dev.op = "list_devices"
    /\ dev.at = "fetch"
    /\ Len(dev.devices) = Len(dev.discovered)
    /\ dev' = IF dev.info_missing_tools # {}
              THEN [dev EXCEPT !.at = "raised",
                               !.error = DeviceToolMissingError(dev.info_missing_tools)]
              ELSE [dev EXCEPT !.at = "probe"]
    /\ UNCHANGED <<restoreVars, otherVars>>

HasDfuEntry(devices) == \E i \in 1..Len(devices) : devices[i].mode = "dfu"

\* list_devices, lines 261-273, with the DFU probe
ListProbe ==
    /\ dev.op = "list_devices"
    /\ dev.at = "probe"
    /\ dev.include_dfu
    /\ \E r \in IrecoveryWorlds :
         LET res == DetectDfu(r)
         IN dev' =
              IF res.error # NoError
              THEN [dev EXCEPT !.at = "raised", !.probe = <<r>>, !.error = res.error]
              ELSE [dev EXCEPT !.at = "returned", !.probe = <<r>>,
                               !.devices = IF res.value /\ ~HasDfuEntry(dev.devices)
                                           THEN Append(@, DfuPlaceholder) ELSE @]
    /\ UNCHANGED <<restoreVars, otherVars>>

\* list_devices, line 261 with include_dfu false: detect_dfu is not called
ListNoProbe ==
    /\ dev.op = "list_devices"
    /\ dev.at = "probe"
    /\ ~dev.include_dfu
    /\ dev' = [dev EXCEPT !.at = "returned"]
    /\ UNCHANGED <<restoreVars, otherVars>>

\* the call is over: nothing is kept
DeviceDone ==
    /\ Finished
    /\ dev' = NoCall
    /\ UNCHANGED <<restoreVars, otherVars>>

\* no call of restore() is in progress
InitDevice ==
    /\ args = [udid |-> None, ipsw_path |-> None, latest |-> FALSE, wipe |-> TRUE,
               preflight_only |-> FALSE, dry_run |-> FALSE, timeout_sec |-> None]
    /\ pc = "device"
    /\ Idle

NextDevice ==
    \/ CallDetectMode
    \/ CallDiscover
    \/ CallDetectDfu
    \/ GetInfoCall
    \/ GetInfoDiscover
    \/ GetInfoSkipDiscovery
    \/ GetInfoFetch
    \/ ListCall
    \/ ListDiscover
    \/ ListFetch
    \/ ListAfterLoop
    \/ ListProbe
    \/ ListNoProbe
    \/ DeviceDone

\* calls into device.py, one after the other
SpecDevice == InitDevice /\ [][NextDevice]_vars

(***************************************************************************)
(* utils.py: configure_logging.  The logger "ios_toolkit" lives as long as *)
(* the interpreter; logger.now is the wall clock in whole seconds,         *)
(* logger.dirs the directories made, logger.first what the call that       *)
(* attached the handlers returned and logger.last what the last call       *)
(* returned.                                                               *)
(***************************************************************************)
\* the clock advances at most this far, and configure_logging is called at
\* most this often
MaxClock == 2

MaxCalls == 3

LogDirs == {"logs", "other"}

\* datetime.now(UTC).strftime('%Y%m%d-%H%M%S'): one stamp for each second
Stamp(t) == "20250101-00000" \o ToString(t)

\* directory / f"session-{...}.log"
SessionPath(log_dir, t) == log_dir \o "/session-" \o Stamp(t) \o ".log"

LevelOf(verbose) == IF verbose THEN "DEBUG" ELSE "INFO"

FileHandler(path, level) == [kind |-> "file", path |-> path, level |-> level]

ConsoleHandler(level) == [kind |-> "console", path |-> "", level |-> level]

\* configure_logging(log_dir, verbose)
ConfigureLogging ==
    /\ pc = "logging"
    /\ logger.calls < MaxCalls
    /\ \E log_dir \in LogDirs, verbose \in BOOLEAN :
         LET log_path == SessionPath(log_dir, logger.now)
             made == [logger EXCEPT !.dirs = @ \cup {log_dir}, !.calls = @ + 1,
                                    !.last = Some(log_path)]
         IN logger' =
              IF logger.handlers # <<>>
              THEN made
              ELSE [made EXCEPT
                       !.level = LevelOf(verbose),
                       !.handlers = <<FileHandler(log_path, LevelOf(verbose)),
                                      ConsoleHandler(LevelOf(verbose))>>,
                       !.first = Some(log_path)]
    /\ UNCHANGED <<restoreVars, dev, syslog>>

\* a second passes
Tick ==
    /\ pc = "logging"
    /\ logger.now < MaxClock
    /\ logger' = [logger EXCEPT !.now = @ + 1]
    /\ UNCHANGED <<restoreVars, dev, syslog>>

\* no call of restore() is in progress
InitLogging ==
    /\ args = [udid |-> None, ipsw_path |-> None, latest |-> FALSE, wipe |-> TRUE,
               preflight_only |-> FALSE, dry_run |-> FALSE, timeout_sec |-> None]
    /\ pc = "logging"
    /\ Idle

NextLogging == ConfigureLogging \/ Tick

\* calls of configure_logging in one interpreter
SpecLogging == InitLogging /\ [][NextLogging]_vars


(***************************************************************************)
(* logs.py: stream_syslog.  syslog holds one call: its arguments, the      *)
(* position of the loop, the child idevicesyslog and its pipe, the save    *)
(* file, and the seconds gone since start = time.monotonic().  The copy of *)
(* each line to sys.stdout is left out.                                    *)
(***************************************************************************)
\* the child writes at most this many lines, and the clock runs this far
MaxSyslog == 2

MaxElapsed == 2

SyslogLines == {"alpha", "beta apfs"}

\* filter_expr is absent or the regex "apfs"; regex.search(line) for it
SyslogFilters == {None, Some("apfs")}

FilterMatches ==
    [line \in SyslogLines |->
        \E i \in 1..Len(line) : i + 3 <= Len(line) /\ SubSeq(line, i, i + 3) = "apfs"]

\* regex is None or regex.search(line)
Passes(filter, line) == filter = None \/ FilterMatches[line]

\* duration is not None and duration >= 0 and (time.monotonic() - start) >= duration
DurationReached(duration, elapsed) ==
    duration # None /\ duration[1] >= 0 /\ elapsed >= duration[1]

\* cmd = ["idevicesyslog"]; if udid: cmd += ["-u", udid]
SyslogCommand(udid) ==
    <<"idevicesyslog">> \o (IF Truthy(udid) THEN <<"-u", udid[1]>> ELSE <<>>)

InSyslog == syslog.op = "stream_syslog"

\* stream_syslog(udid, save_path, filter_expr, duration), lines 29-47: without
\* the tool it returns 2; else the save file is opened for appending
SyslogCall ==
    /\ pc = "syslog"
    /\ syslog = NoCall
    /\ \E have \in BOOLEAN, udid \in {None, Some("UDID")}, save \in BOOLEAN,
          filter \in SyslogFilters, duration \in {None, Some(-1), Some(0), Some(1)} :
         syslog' = [op |-> "stream_syslog",
                    at |-> IF have THEN "popen" ELSE "returned",
                    cmd |-> IF have THEN SyslogCommand(udid) ELSE <<>>,
                    filter |-> filter, duration |-> duration,
                    fp |-> IF have /\ save THEN "open" ELSE "none",
                    saved |-> <<>>, child |-> "none", pipe |-> <<>>, emitted |-> 0,
                    term |-> FALSE, kill |-> FALSE, line |-> "", elapsed |-> 0,
                    rc |-> IF have THEN 0 ELSE 2]
    /\ UNCHANGED <<restoreVars, dev, logger>>

\* proc = subprocess.Popen(cmd, ...)
SyslogPopen ==
    /\ InSyslog
    /\ syslog.at = "popen"
    /\ syslog' = [syslog EXCEPT !.child = "running", !.at = "readline"]
    /\ UNCHANGED <<restoreVars, dev, logger>>

\* except Exception: fp.close(); return 1
SyslogPopenFails ==
    /\ InSyslog
    /\ syslog.at = "popen"
    /\ syslog' = [syslog EXCEPT !.fp = IF @ = "open" THEN "closed" ELSE @,
                                !.rc = 1, !.at = "returned"]
    /\ UNCHANGED <<restoreVars, dev, logger>>

\* line = proc.stdout.readline(): a line is in the pipe
SyslogReadLine ==
    /\ InSyslog
    /\ syslog.at = "readline"
    /\ syslog.pipe # <<>>
    /\ syslog' = [syslog EXCEPT !.line = Head(syslog.pipe), !.pipe = Tail(@),
                                !.at = "filter"]
    /\ UNCHANGED <<restoreVars, dev, logger>>

\* readline returns "" at the end of the pipe: break when proc.poll() is not
\* None, else time.sleep(0.02); continue.  While the pipe is empty and open,
\* readline does not return.
SyslogReadEof ==
    /\ InSyslog
    /\ syslog.at = "readline"
    /\ syslog.pipe = <<>>
    /\ syslog.child \in {"closed", "exited"}
    /\ syslog' = [syslog EXCEPT !.line = "",
                                !.at = IF syslog.child = "exited" THEN "finally" ELSE "sleep"]
    /\ UNCHANGED <<restoreVars, dev, logger>>

\* time.sleep(0.02); continue
SyslogSleep ==
    /\ InSyslog
    /\ syslog.at = "sleep"
    /\ syslog' = [syslog EXCEPT !.at = "readline"]
    /\ UNCHANGED <<restoreVars, dev, logger>>

\* if regex is None or regex.search(line): ...; if fp: fp.write(line)
SyslogFilterWrite ==
    /\ InSyslog
    /\ syslog.at = "filter"
    /\ syslog' = [syslog EXCEPT
                     !.saved = IF Passes(syslog.filter, syslog.line) /\ syslog.fp = "open"
                               THEN Append(@, syslog.line) ELSE @,
                     !.at = "check"]
    /\ UNCHANGED <<restoreVars, dev, logger>>

\* if duration is not None and ...: break
SyslogDurationCheck ==
    /\ InSyslog
    /\ syslog.at = "check"
    /\ syslog' = [syslog EXCEPT
                     !.at = IF DurationReached(syslog.duration, syslog.elapsed)
                            THEN "finally" ELSE "readline"]
    /\ UNCHANGED <<restoreVars, dev, logger>>

\* except KeyboardInterrupt: rc = 0, anywhere in the loop
SyslogInterrupt ==
    /\ InSyslog
    /\ syslog.at \in {"readline", "sleep", "filter", "check"}
    /\ syslog' = [syslog EXCEPT !.rc = 0, !.at = "finally"]
    /\ UNCHANGED <<restoreVars, dev, logger>>

\* finally: if proc.poll() is None: proc.terminate()
SyslogFinally ==
    /\ InSyslog
    /\ syslog.at = "finally"
    /\ syslog' = IF syslog.child = "exited"
                 THEN [syslog EXCEPT !.at = "close"]
                 ELSE [syslog EXCEPT !.term = TRUE, !.at = "wait2"]
    /\ UNCHANGED <<restoreVars, dev, logger>>

\* proc.terminate() raises while the child runs: except Exception: pass
SyslogTerminateFails ==
    /\ InSyslog
    /\ syslog.at = "finally"
    /\ syslog.child # "exited"
    /\ syslog' = [syslog EXCEPT !.at = "close"]
    /\ UNCHANGED <<restoreVars, dev, logger>>

\* proc.wait(timeout=2) returns
SyslogWaitReturns ==
    /\ InSyslog
    /\ syslog.at = "wait2"
    /\ syslog.child = "exited"
    /\ syslog' = [syslog EXCEPT !.at = "close"]
    /\ UNCHANGED <<restoreVars, dev, logger>>

\* proc.wait(timeout=2) raises TimeoutExpired: except Exception: proc.kill()
SyslogKill ==
    /\ InSyslog
    /\ syslog.at = "wait2"
    /\ syslog.child # "exited"
    /\ syslog' = [syslog EXCEPT !.kill = TRUE, !.at = "close"]
    /\ UNCHANGED <<restoreVars, dev, logger>>

\* if fp: fp.close(); return rc
SyslogClose ==
    /\ InSyslog
    /\ syslog.at = "close"
    /\ syslog' = [syslog EXCEPT !.fp = IF @ = "open" THEN "closed" ELSE @,
                                !.at = "returned"]
    /\ UNCHANGED <<restoreVars, dev, logger>>

\* idevicesyslog writes a line to its pipe
SyslogChildEmit ==
    /\ InSyslog
    /\ syslog.child = "running"
    /\ syslog.emitted < MaxSyslog
    /\ \E line \in SyslogLines :
         syslog' = [syslog EXCEPT !.pipe = Append(@, line), !.emitted = @ + 1]
    /\ UNCHANGED <<restoreVars, dev, logger>>

\* idevicesyslog closes its stdout and stays alive
SyslogChildCloses ==
    /\ InSyslog
    /\ syslog.child = "running"
    /\ syslog' = [syslog EXCEPT !.child = "closed"]
    /\ UNCHANGED <<restoreVars, dev, logger>>

\* idevicesyslog exits, of itself or on a signal
SyslogChildExit ==
    /\ InSyslog
    /\ syslog.child \in {"running", "closed"}
    /\ syslog' = [syslog EXCEPT !.child = "exited"]
    /\ UNCHANGED <<restoreVars, dev, logger>>

\* a second passes while the call is in progress
SyslogTick ==
    /\ InSyslog
    /\ syslog.at # "returned"
    /\ syslog.child # "none"
    /\ syslog.elapsed < MaxElapsed
    /\ syslog' = [syslog EXCEPT !.elapsed = @ + 1]
    /\ UNCHANGED <<restoreVars, dev, logger>>

\* no call of restore() is in progress
InitSyslog ==
    /\ args = [udid |-> None, ipsw_path |-> None, latest |-> FALSE, wipe |-> TRUE,
               preflight_only |-> FALSE, dry_run |-> FALSE, timeout_sec |-> None]
    /\ pc = "syslog"
    /\ Idle

\* the steps of stream_syslog itself, a Ctrl+C apart
Streamer ==
    \/ SyslogPopen
    \/ SyslogPopenFails
    \/ SyslogReadLine
    \/ SyslogReadEof
    \/ SyslogSleep
    \/ SyslogFilterWrite
    \/ SyslogDurationCheck
    \/ SyslogFinally
    \/ SyslogTerminateFails
    \/ SyslogWaitReturns
    \/ SyslogKill
    \/ SyslogClose

NextSyslog ==
    \/ SyslogCall
    \/ Streamer
    \/ SyslogInterrupt
    \/ SyslogChildEmit
    \/ SyslogChildCloses
    \/ SyslogChildExit
    \/ SyslogTick

\* One call of stream_syslog, with the calling thread kept running.  Nothing
\* is assumed of the child (a quiet device gives no line) nor of the user.
SpecSyslog == InitSyslog /\ [][NextSyslog]_vars /\ WF_vars(Streamer)


(***************************************************************************)
(* Properties                                                              *)
(***************************************************************************)
Returned == result # None
Res == result[1]
Names(st) == [i \in 1..Len(st) |-> st[i].name]
HasStep(st, name) == \E i \in 1..Len(st) : st[i].name = name
HasOkStep(st, name) == \E i \in 1..Len(st) : st[i].name = name /\ st[i].ok
Last(st) == st[Len(st)]
Spawned == proc.state # "none"
PreflightDone == env # None /\ env[1].validation # "raise"

\* every REQUIRED probe of the preflight succeeded
RequiredOk(e) ==
    /\ e.have_restore
    /\ e.exists
    /\ e.validation = "ok"
    /\ e.free_gb # None
    /\ e.free_gb[1] >= 10

\* the names of the preflight Steps of a call, in order
ExpectedPreflightNames(a) ==
    <<"check_idevicerestore", "ipsw_exists">>
        \o (IF a.ipsw_path # None /\ a.ipsw_path # Some("") THEN <<"ipsw_validated">> ELSE <<>>)
        \o <<"disk_free_gb", "amds_running", "device_info", "preflight">>

\* the argument list of the restore tool, joined by single spaces
ExpectedCommandLine(a) ==
    "idevicerestore " \o (IF a.wipe THEN "-w" ELSE "-r")
        \o (IF a.udid # None /\ a.udid # Some("") THEN " -u " \o a.udid[1] ELSE "")
        \o " " \o a.ipsw_path[1]

TerminalOk(st) == HasOkStep(st, "idevicerestore")

(* C1, as stated: on every exit path of restore(), status = success if and
   only if the terminal "idevicerestore" Step is present with ok = true and no
   "timeout" Step is present. *)
C1_StatusIffTerminalOk ==
    Returned =>
        (Res.status = "success"
            <=> (TerminalOk(Res.steps) /\ ~HasStep(Res.steps, "timeout")))

(* C1, amended: status = success if and only if either the terminal
   "idevicerestore" Step is present with ok = true and no "timeout" Step is
   present, or the call was preflight_only or dry_run, ran no process (no
   "idevicerestore" Step) and its "preflight" Step is ok. *)
C1_StatusIffTerminalOkOrNoRun ==
    Returned =>
        (Res.status = "success"
            <=> \/ TerminalOk(Res.steps) /\ ~HasStep(Res.steps, "timeout")
                \/ /\ args.preflight_only \/ args.dry_run
                   /\ ~HasStep(Res.steps, "idevicerestore")
                   /\ HasOkStep(Res.steps, "preflight"))

C1_Witness ==
    /\ Returned
    /\ Res.status = "success"
    /\ TerminalOk(Res.steps)
    /\ proc.state = "exited"

(* C2: if the child has not exited when timeout_sec elapses, the result has
   status = failure, a "timeout" Step with ok = false and a terminal
   "idevicerestore" Step with ok = false, whatever exit code the child reports. *)
C2_OutlivedChildFails ==
    (Returned /\ outlived) =>
        /\ Res.status = "failure"
        /\ \E i \in 1..Len(Res.steps) : Res.steps[i].name = "timeout" /\ ~Res.steps[i].ok
        /\ Last(Res.steps).name = "idevicerestore"
        /\ ~Last(Res.steps).ok

(* C3, as stated: with dry_run = true the process is never spawned and the
   call always finalizes with status = success and a "compose_cmd" Step whose
   detail is the composed argument list. *)
C3_DryRunAlwaysSucceeds ==
    args.dry_run =>
        /\ ~Spawned
        /\ Returned =>
             /\ Res.status = "success"
             /\ Last(Res.steps) = Step("compose_cmd", TRUE, Some(ExpectedCommandLine(args)))

(* C3, amended: with dry_run = true the process is never spawned and no
   worker is started; the call finalizes with status = success and a last Step
   "compose_cmd", whose detail is the composed argument list joined by single
   spaces, exactly when latest and preflight_only are false and every REQUIRED
   preflight check is ok; on the other paths no "compose_cmd" Step is added. *)
C3_DryRunComposesAfterPreflight ==
    args.dry_run =>
        /\ ~Spawned
        /\ wpc = "none"
        /\ Returned =>
             /\ HasStep(Res.steps, "compose_cmd")
                    <=> (~args.latest /\ ~args.preflight_only /\ RequiredOk(env[1]))
             /\ HasStep(Res.steps, "compose_cmd") =>
                    /\ Res.status = "success"
                    /\ Last(Res.steps)
                         = Step("compose_cmd", TRUE, Some(ExpectedCommandLine(args)))
                    /\ SubSeq(Names(Res.steps), 1, Len(Res.steps) - 1)
                         = ExpectedPreflightNames(args)

C3_Witness ==
    /\ Returned
    /\ args.dry_run
    /\ args.udid # None
    /\ ~args.wipe
    /\ HasStep(Res.steps, "compose_cmd")

(* C4: the restore command is composed and the child spawned only after the
   preflight has completed with every REQUIRED check ok; when the preflight
   aggregate is not ok the call composes no command, spawns nothing and can
   only return with status = failure. *)
C4_ComposeOnlyAfterPreflightOk ==
    /\ (cmd # <<>> \/ Spawned \/ wpc # "none") =>
           /\ PreflightDone
           /\ RequiredOk(env[1])
           /\ HasOkStep(steps, "preflight")
    /\ (PreflightDone /\ ~RequiredOk(env[1])) =>
           /\ cmd = <<>>
           /\ ~Spawned
           /\ pc \in {"preflight_done", "done"}
           /\ Returned => Res.status = "failure"

C4_Witness == cmd # <<>> /\ proc.state = "running" /\ wpc = "read"

(* C5: a preflight_only call that reaches the preflight returns success if
   and only if every REQUIRED check is ok, its steps are exactly the preflight
   check Steps followed by the "preflight" Step, and it composes no command and
   spawns no process, whatever dry_run and timeout_sec are. *)
C5_PreflightOnly ==
    (args.preflight_only /\ ~args.latest) =>
        /\ cmd = <<>>
        /\ ~Spawned
        /\ wpc = "none"
        /\ Returned =>
             /\ Res.status = "success" <=> RequiredOk(env[1])
             /\ Names(Res.steps) = ExpectedPreflightNames(args)
             /\ Last(Res.steps).ok <=> RequiredOk(env[1])

C5_Witness ==
    /\ Returned
    /\ args.preflight_only
    /\ args.dry_run
    /\ args.timeout_sec # None
    /\ Res.status = "success"

\* the result of the unsupported-latest exit
UnsupportedLatest(res) ==
    /\ res.status = "failure"
    /\ Len(res.steps) = 1
    /\ res.steps[1].name = "resolve_latest_ipsw"
    /\ ~res.steps[1].ok

(* C6: restore() takes the unsupported-latest exit exactly when latest is
   requested without a concrete artifact path; a request that supplies an
   artifact path is not rejected on it. *)
C6_LatestRejectedOnlyWithoutArtifact ==
    Returned =>
        (UnsupportedLatest(Res) <=> (args.latest /\ ~Truthy(args.ipsw_path)))

(* C7: every invocation of restore() returns a RestoreResult with a log path,
   both timestamps and an integer duration, and never lets an exception reach
   the caller. *)
C7_AlwaysReturnsCompleteResult ==
    /\ pc # "raised"
    /\ Returned =>
         /\ Res.logfile # None
         /\ Res.started_at # None
         /\ Res.finished_at # None
         /\ Res.duration_sec # None
         /\ Res.duration_sec[1] \in Nat

\* restore() returned from the except branch around Popen
SpawnFailed == pc = "done" /\ cmd # <<>> /\ ~args.dry_run /\ ~Spawned

(* C8: when the process cannot be spawned, restore() returns status = failure,
   the Steps are the preflight Steps followed by one Step "idevicerestore" with
   ok = false and the spawn error as detail, no worker was started, and
   is_validation_failure(result) is false. *)
C8_SpawnFailureIsOperational ==
    SpawnFailed =>
        /\ Res.status = "failure"
        /\ Last(Res.steps).name = "idevicerestore"
        /\ ~Last(Res.steps).ok
        /\ Last(Res.steps).detail = Some("[Errno 2] No such file or directory")
        /\ SubSeq(Names(Res.steps), 1, Len(Res.steps) - 1) = ExpectedPreflightNames(args)
        /\ wpc = "none"
        /\ fp = "none"
        /\ ~IsValidationFailure(Res)

C8_Witness == SpawnFailed /\ env[1].amds = "stopped" /\ ~env[1].device_info

\* the Steps of a result after the preflight Steps and before the last one
Middle(res, a) ==
    SubSeq(res.steps, Len(ExpectedPreflightNames(a)) + 1, Len(res.steps) - 1)

Distinct(st) == \A i, j \in 1..Len(st) : st[i].name = st[j].name => i = j

IsPrefix(s, t) == Len(s) <= Len(t) /\ SubSeq(t, 1, Len(s)) = s

(* C9, as stated: when the child was spawned, the returned Steps are the
   preflight Steps, then every milestone Step the extractor emitted, then one
   terminal Step "idevicerestore", whose ok is (exit code = 0) and whose detail
   carries the exit code the process returned. *)
C9_StepsAreMilestonesThenTerminal ==
    (Returned /\ Spawned) =>
        /\ SubSeq(Names(Res.steps), 1, Len(ExpectedPreflightNames(args)))
             = ExpectedPreflightNames(args)
        /\ Middle(Res, args) = progress_steps
        /\ proc.state = "exited"
        /\ Last(Res.steps)
             = Step("idevicerestore", proc.code = 0, Some("rc=" \o ToString(proc.code)))

(* C9, amended: when the child was spawned, the returned Steps are the
   preflight Steps, then the milestone Steps the worker had emitted when
   restore() collected them (each ok = true, names pairwise distinct; all of
   them when the worker had finished at the join), then a Step "timeout" with
   ok = false exactly when the wait timed out, then one terminal Step
   "idevicerestore" as the last Step.  Without a timeout its ok is
   (exit code = 0) and its detail carries the child's exit code; after a
   timeout its ok is false and its detail is "rc=1", whatever the child's exit
   code. *)
C9_StepsOfASpawnedRun ==
    (Returned /\ Spawned) =>
        LET mid == Middle(Res, args)
            miles == IF timeout_occurred THEN SubSeq(mid, 1, Len(mid) - 1) ELSE mid
            code == IF timeout_occurred THEN 1 ELSE proc.code
        IN /\ SubSeq(Names(Res.steps), 1, Len(ExpectedPreflightNames(args)))
                = ExpectedPreflightNames(args)
           /\ IsPrefix(miles, progress_steps)
           /\ joined => miles = progress_steps
           /\ \A i \in 1..Len(miles) :
                miles[i].ok /\ \E k \in 1..Len(STEP_PATTERNS) : miles[i].name = STEP_PATTERNS[k]
           /\ Distinct(miles)
           /\ timeout_occurred => Last(mid).name = "timeout" /\ ~Last(mid).ok
           /\ ~timeout_occurred => proc.state = "exited"
           /\ Last(Res.steps)
                = Step("idevicerestore", code = 0, Some("rc=" \o ToString(code)))
           /\ Distinct(Res.steps)

C9_Witness ==
    /\ Returned
    /\ Spawned
    /\ ~timeout_occurred
    /\ joined
    /\ proc.code = 0
    /\ Len(progress_steps) >= 2

\* the index in lines of the first line that pattern k matches, 0 when none does
FirstMatch(k, lines) ==
    IF \E i \in 1..Len(lines) : k \in Matching[lines[i]]
    THEN Min({i \in 1..Len(lines) : k \in Matching[lines[i]]})
    ELSE 0

PatternOf(name) == CHOOSE k \in 1..Len(STEP_PATTERNS) : STEP_PATTERNS[k] = name

(* C10: for every sequence of lines fed to the extractor, each milestone name
   is emitted at most once, for the first line that matches its pattern
   (ignoring case); later lines matching a fired pattern add no Step.  The
   lines "Extracting firmware", "Extracting more", "Sending RestoreImage now"
   yield exactly the Steps "extract" then "send_restore_image". *)
C10_EachMilestoneOnceAtFirstMatch ==
    /\ Distinct(progress_steps)
    /\ \A i \in 1..Len(progress_steps) : progress_steps[i].ok
    /\ \A k \in 1..Len(STEP_PATTERNS) :
         HasStep(progress_steps, STEP_PATTERNS[k]) <=> FirstMatch(k, fed) > 0
    /\ \A i, j \in 1..Len(progress_steps) :
         i < j =>
           LET ki == PatternOf(progress_steps[i].name)
               kj == PatternOf(progress_steps[j].name)
           IN \/ FirstMatch(ki, fed) < FirstMatch(kj, fed)
              \/ FirstMatch(ki, fed) = FirstMatch(kj, fed) /\ ki < kj
    /\ fed = <<"Extracting firmware", "Extracting more", "Sending RestoreImage now">>
         => Names(progress_steps) = <<"extract", "send_restore_image">>
    /\ (\E i \in 1..Len(fed) : fed[i] = "RESTORE done") => HasStep(progress_steps, "restore")
    /\ fed = <<"prerestore_extract">> => progress_steps = <<>>

C10_Witness ==
    /\ pc = "extract"
    /\ fed = <<"Extracting firmware", "Extracting more", "Sending RestoreImage now">>
    /\ Len(progress_steps) = 2

\* the REQUIRED checks of the preflight
RequiredChecks == {"check_idevicerestore", "ipsw_exists", "ipsw_validated", "disk_free_gb"}

\* the entries of checks that are REQUIRED and failed, in order
FailedRequired(checks) ==
    SelectSeq(checks, LAMBDA c : c.name \in RequiredChecks /\ ~c.ok)

\* two probe outcomes that differ at most in what the OPTIONAL probes found
SameRequiredProbes(e1, e2) ==
    /\ e1.have_restore = e2.have_restore
    /\ e1.exists = e2.exists
    /\ e1.validation = e2.validation
    /\ e1.free_gb = e2.free_gb

(* C11: for every combination of check outcomes, preflight_checks returns
   ok = false if and only if at least one REQUIRED check is false; changing only
   the outcome of an OPTIONAL check never changes ok or errors; errors holds one
   entry, in order, for each failed REQUIRED check and none for an OPTIONAL
   check. *)
C11_AggregateIsAndOfRequired ==
    pc = "preflight_done" =>
        LET pre == Preflight
        IN /\ ~pre.ok <=> FailedRequired(pre.checks) # <<>>
           /\ pre.ok <=> RequiredOk(env[1])
           /\ [i \in 1..Len(pre.errors) |-> pre.errors[i].name]
                = Names(FailedRequired(pre.checks))
           /\ \A i \in 1..Len(pre.errors) : pre.errors[i].name \notin OPTIONAL_CHECKS
           /\ \A e2 \in Envs(args) :
                SameRequiredProbes(env[1], e2) =>
                    LET pre2 == PreflightChecks(args.udid, args.ipsw_path, e2)
                    IN pre2.ok = pre.ok /\ pre2.errors = pre.errors

C11_Witness ==
    /\ pc = "preflight_done"
    /\ ~env[1].have_restore
    /\ env[1].free_gb = Some(5)
    /\ env[1].amds = "stopped"
    /\ ~env[1].device_info
    /\ Len(Preflight.errors) = 2

\* restore() returned without composing a command: no process was attempted
NotAttempted == cmd = <<>>

(* C12: for every result of restore() with status = failure,
   is_validation_failure(result) is true if and only if the call failed before
   any process was attempted, because a REQUIRED preflight check failed or the
   latest-firmware request was rejected; it is false when the process ran and
   exited nonzero, failed to spawn or timed out, and failing OPTIONAL checks
   never make it true.  cli.flash exits with 2 and 1 respectively, and with 0
   on success. *)
C12_ValidationVersusOperational ==
    Returned =>
        /\ Res.status = "failure" =>
             /\ IsValidationFailure(Res) <=> NotAttempted
             /\ IsValidationFailure(Res) => (args.latest \/ ~RequiredOk(env[1]))
             /\ (Spawned \/ SpawnFailed \/ timeout_occurred) => ~IsValidationFailure(Res)
        /\ FlashExitCode(Res)
             = (IF Res.status = "success" THEN 0
                ELSE IF NotAttempted THEN 2 ELSE 1)

C12_Witness ==
    /\ Returned
    /\ Res.status = "failure"
    /\ proc.state = "exited"
    /\ proc.code = 1
    /\ env[1].amds = "error"
    /\ ~env[1].device_info
    /\ FlashExitCode(Res) = 1

(***************************************************************************)
(* Properties of device.py                                                 *)
(***************************************************************************)
InGetInfo == dev.op = "get_info"
InList == dev.op = "list_devices"
Udids(entries) == [i \in 1..Len(entries) |-> entries[i].udid]
Range(seq) == {seq[i] : i \in 1..Len(seq)}
StrictlySorted(seq) == \A i, j \in 1..Len(seq) : i < j => StrLess(seq[i], seq[j])
ToolsMissing(tool) ==
    [type |-> "DeviceToolMissingError", exit_code |-> 2, tools |-> <<tool>>, udids |-> <<>>]

(* C13: in get_info, an identifier that is given is used unchanged and the
   discovery backends are not consulted.  When it is absent, zero discovered
   candidates raise NoDevicesError, or DeviceToolMissingError if no backend was
   usable; exactly one candidate resolves to its identifier; two or more raise
   MultipleDevicesError carrying exactly the candidate identifiers, sorted,
   and none is picked. *)
C13_TargetResolution ==
    InGetInfo =>
        /\ dev.given # None =>
             /\ ~dev.consulted
             /\ dev.discovered = <<>>
             /\ dev.udid = dev.given
             /\ dev.error.type \notin {"NoDevicesError", "MultipleDevicesError"}
        /\ (dev.given = None /\ dev.allow /\ dev.at # "resolve") =>
             /\ dev.consulted
             /\ dev.discovered = <<>> =>
                  /\ dev.at = "raised"
                  /\ dev.error = IF dev.any_tool THEN NoDevicesError
                                 ELSE ToolsMissing("idevice_id")
                  /\ dev.tried = <<>>
             /\ Len(dev.discovered) = 1 =>
                  /\ dev.udid = Some(dev.discovered[1].udid)
                  /\ dev.error.type \notin {"NoDevicesError", "MultipleDevicesError"}
                  /\ Finished => dev.tried # <<>>
             /\ Len(dev.discovered) >= 2 =>
                  /\ dev.at = "raised"
                  /\ dev.error.type = "MultipleDevicesError"
                  /\ dev.error.exit_code = 4
                  /\ Len(dev.error.udids) = Len(dev.discovered)
                  /\ Range(dev.error.udids) = Range(Udids(dev.discovered))
                  /\ StrictlySorted(dev.error.udids)
                  /\ dev.udid = None
                  /\ dev.tried = <<>>

C13_Witness ==
    /\ InGetInfo
    /\ dev.at = "raised"
    /\ Udids(dev.discovered) = <<"a1", "B2">>
    /\ dev.error.udids = <<"B2", "a1">>

\* the identifiers a backend reports, and the hints the first backend gives
PymuxReported(p) ==
    IF p.state # "ok" THEN {}
    ELSE {p.devices[i].serial[1] :
             i \in {j \in 1..Len(p.devices) : p.devices[j].serial # None}}

PymuxHints(p, udid) ==
    {IF p.devices[i].connection_type = None THEN "unknown"
     ELSE Fold(p.devices[i].connection_type[1]) :
        i \in {j \in 1..Len(p.devices) : p.devices[j].serial = Some(udid)}}

IdeviceReported(t) ==
    IF ~t.have \/ t.code \notin {0, 1} THEN {}
    ELSE {Strip(t.lines[i]) : i \in 1..Len(t.lines)} \ {""}

(* C14: for every pair of backend reports, each identifier appears exactly
   once in the list of _discover_devices (identifiers are the same only when
   they match exactly), the connection hint of an identifier is one given by
   the first backend, in consultation order, that reported it, and the later
   backend contributes entries only for identifiers it alone reports. *)
C14_MergeByFirstReporter ==
    dev.op = "discover" =>
        LET found == dev.out.discovered
            first == PymuxReported(dev.pymux)
            later == IdeviceReported(dev.idevice)
        IN /\ \A i, j \in 1..Len(found) : found[i].udid = found[j].udid => i = j
           /\ Range(Udids(found)) = first \cup later
           /\ \A i \in 1..Len(found) :
                IF found[i].udid \in first
                THEN /\ found[i].source = "pymobiledevice3"
                     /\ found[i].connection \in PymuxHints(dev.pymux, found[i].udid)
                ELSE /\ found[i].source = "idevice_id"
                     /\ found[i].connection = "usb"

C14_Witness ==
    /\ dev.op = "discover"
    /\ dev.pymux.state = "ok"
    /\ dev.pymux.devices = <<[serial |-> Some("a1"), connection_type |-> Some("Network")]>>
    /\ dev.idevice.lines = <<"A1", "a1">>
    /\ dev.idevice.code = 0
    /\ dev.out.discovered
         = <<DiscoveryEntry("a1", "network", "pymobiledevice3"),
             DiscoveryEntry("A1", "usb", "idevice_id")>>

(* C15: discovery reports "tools missing", a DeviceToolMissingError naming the
   missing executable, if and only if zero devices were found and zero backends
   were available; zero devices with at least one available backend is "no
   devices", an empty list from list_devices and NoDevicesError from get_info;
   a backend that is available but fails is not counted as unavailable. *)
C15_ToolsMissingIffNoBackend ==
    /\ dev.op = "discover" =>
         /\ dev.out.any_tool <=> (dev.pymux.state # "missing" \/ dev.idevice.have)
         /\ (dev.out.discovered = <<>> /\ ~dev.out.any_tool /\ dev.out.missing_tools # <<>>)
                <=> (dev.pymux.state = "missing" /\ ~dev.idevice.have)
         /\ dev.out.missing_tools = IF dev.idevice.have THEN <<>> ELSE <<"idevice_id">>
    /\ (InGetInfo /\ dev.consulted) =>
         /\ dev.error = ToolsMissing("idevice_id")
                <=> (dev.discovered = <<>> /\ ~dev.any_tool)
         /\ (dev.discovered = <<>> /\ dev.any_tool) => dev.error = NoDevicesError
    /\ (InList /\ dev.at # "discover") =>
         /\ dev.error = ToolsMissing("idevice_id")
                <=> (dev.discovered = <<>> /\ ~dev.any_tool)
         /\ (dev.discovered = <<>> /\ dev.any_tool) =>
                /\ dev.error.type # "DeviceToolMissingError"
                /\ dev.devices = <<>>

C15_Witness ==
    /\ InGetInfo
    /\ dev.at = "raised"
    /\ dev.discovered = <<>>
    /\ dev.any_tool
    /\ dev.error = NoDevicesError

\* the bare record of a discovered candidate: its identifier and connection only
BareRecord(entry) ==
    [udid |-> Some(Str(entry.udid)), product_type |-> None, product_version |-> None,
     device_name |-> None, mode |-> "unknown",
     connection |-> IF entry.connection \in {"usb", "wifi"} THEN entry.connection
                    ELSE "unknown",
     details |-> EmptyRaw]

(* C16: in list_devices, every discovered candidate whose detail fetch fails,
   by a generic query failure or by a missing detail tool, is listed as a bare
   record of its identifier and connection, and the listing is returned rather
   than aborted by the failure. *)
C16_DetailFailureDegradesEntry ==
    (InList /\ dev.at \in {"probe", "returned", "raised"} /\ dev.discovered # <<>>) =>
        /\ dev.error.type # "DeviceToolMissingError"
        /\ Len(dev.devices) >= Len(dev.discovered)
        /\ \A i \in 1..Len(dev.discovered) :
             dev.fetched[i] # "none" => dev.devices[i] = BareRecord(dev.discovered[i])

\* the DFU probe's query succeeded and its output parses as DFU
ProbeSeesDfu(r) == r.have /\ r.code = 0 /\ r.stdout # "" /\ ParseIrecoveryQ(r.stdout) = "dfu"

(* C17: list_devices(include_dfu = true) appends exactly one placeholder entry
   (no identifier, device_name "(DFU device)", mode dfu, connection usb)
   whenever the DFU probe detects DFU and no listed entry has mode dfu,
   whatever discovery found; it appends none when the probe does not detect
   DFU or an entry is already dfu; with include_dfu = false the probe is not
   run. *)
C17_DfuPlaceholder ==
    (InList /\ Finished) =>
        /\ ~dev.include_dfu => dev.probe = <<>>
        /\ dev.probe # <<>> =>
             LET listed == SubSeq(dev.devices, 1, Len(dev.discovered))
             IN /\ dev.at = "returned"
                /\ dev.devices
                     = IF ProbeSeesDfu(dev.probe[1]) /\ ~HasDfuEntry(listed)
                       THEN Append(listed, DfuPlaceholder)
                       ELSE listed

(* C18: detect_dfu never raises: for every tool availability, exit code and
   output of the query it returns a boolean, true exactly when the query
   succeeded and its parsed mode is DFU, and false without running any command
   when the tool is absent. *)
C18_DetectDfuNeverRaises ==
    dev.op = "detect_dfu" =>
        /\ dev.error = NoError
        /\ dev.value <=> ProbeSeesDfu(dev.probe)
        /\ ~dev.probe.have => dev.calls = <<>>

\* the raw map of the fallback tool's output is usable
FallbackUsable(t) ==
    t.have /\ t.code = 0 /\ \E i \in 1..Len(t.lines) : Strip(t.lines[i]) # ""

(* C19: get_info for a resolved identifier tries the structured source first
   and uses its data when it yields any; when it fails or is unavailable the
   line-oriented tool is tried; when both are unusable the call raises
   DeviceToolMissingError naming the fallback tool if that tool is absent, and
   the generic DeviceError with exit code 6 only if the tool is present and
   yielded nothing. *)
C19_TieredFetch ==
    (InGetInfo /\ dev.detail # <<>> /\ Truthy(dev.udid)) =>
        LET d == dev.detail[1]
            structured == d.lockdown.state = "ok"
        IN /\ Finished
           /\ structured =>
                /\ dev.tried = <<"pymobiledevice3">>
                /\ dev.at = "returned"
                /\ \A k \in DOMAIN d.lockdown.values :
                     dev.device[1].details[k] = d.lockdown.values[k]
                /\ dev.device[1].mode = DetectMode(dev.device[1].details)
           /\ ~structured => dev.tried = <<"pymobiledevice3", "ideviceinfo">>
           /\ (~structured /\ FallbackUsable(d.ideviceinfo)) =>
                /\ dev.at = "returned"
                /\ dev.device[1].connection = "usb"
                /\ "ConnectionType" \notin DOMAIN dev.device[1].details
           /\ (~structured /\ ~FallbackUsable(d.ideviceinfo)) =>
                /\ dev.at = "raised"
                /\ dev.device = <<>>
                /\ dev.error = IF ~d.ideviceinfo.have THEN ToolsMissing("ideviceinfo")
                               ELSE [type |-> "DeviceError", exit_code |-> 6,
                                     tools |-> <<>>, udids |-> <<>>]

C19_Witness ==
    /\ InGetInfo
    /\ dev.at = "raised"
    /\ dev.detail # <<>>
    /\ dev.detail[1].lockdown.state = "fails"
    /\ dev.detail[1].ideviceinfo.have
    /\ dev.detail[1].ideviceinfo.lines = <<"  ">>
    /\ dev.error.exit_code = 6

\* a flag as C20 words it: true, a nonzero number, or a str equal to "1",
\* "true" or "yes" when case is ignored
StatedFlag(opt) ==
    /\ opt # None
    /\ CASE opt[1].t = "bool" -> opt[1].b
         [] opt[1].t = "num" -> opt[1].n # 0
         [] OTHER -> Fold(opt[1].s) \in {"1", "true", "yes"}

StatedMode(raw) ==
    IF StatedFlag(RawGet(raw, "DFUMode")) THEN "dfu"
    ELSE IF StatedFlag(RawGet(raw, "RecoveryMode")) \/ StatedFlag(RawGet(raw, "IsInRecoveryMode"))
    THEN "recovery"
    ELSE IF "ProductVersion" \in DOMAIN raw THEN "normal"
    ELSE "unknown"

(* C20, as stated: the mode is dfu for a truthy DFU flag, else recovery for a
   truthy recovery flag, else normal when a firmware-version field is present,
   else unknown, where a flag is truthy iff it is true, a nonzero number, or a
   str equal to "1", "true" or "yes" case-insensitively. *)
C20_ModePrecedenceAsStated ==
    dev.op = "detect_mode" => dev.mode = StatedMode(dev.raw)

\* a flag as the amended C20 words it: the str is trimmed first
TrimmedFlag(opt) ==
    /\ opt # None
    /\ CASE opt[1].t = "bool" -> opt[1].b
         [] opt[1].t = "num" -> opt[1].n # 0
         [] OTHER -> \E w \in {"1", "true", "yes"} : Fold(Strip(opt[1].s)) = w

(* C20, amended: the mode is a function of the raw map alone: dfu when DFUMode
   is a truthy flag or DeviceMode is exactly "dfu"; else recovery when
   RecoveryMode or IsInRecoveryMode is a truthy flag; else normal when
   ProductVersion is present and not empty; else unknown.  A flag is truthy iff
   it is true, a nonzero number, or a str that, with surrounding whitespace
   removed, equals "1", "true" or "yes" case-insensitively.
   {"ProductVersion":"17.0"} gives normal, {"RecoveryMode":"1"} recovery, {}
   unknown, and a truthy DFUMode with a version gives dfu. *)
C20_ModePrecedence ==
    dev.op = "detect_mode" =>
        LET raw == dev.raw
            dfu == \/ TrimmedFlag(RawGet(raw, "DFUMode"))
                   \/ RawGet(raw, "DeviceMode") = Some(Str("dfu"))
            recovery == \/ TrimmedFlag(RawGet(raw, "RecoveryMode"))
                        \/ TrimmedFlag(RawGet(raw, "IsInRecoveryMode"))
            version == /\ "ProductVersion" \in DOMAIN raw
                       /\ raw["ProductVersion"] # Str("")
        IN /\ dev.mode = (IF dfu THEN "dfu"
                          ELSE IF recovery THEN "recovery"
                          ELSE IF version THEN "normal"
                          ELSE "unknown")
           /\ raw = ("ProductVersion" :> Str("17.0")) => dev.mode = "normal"
           /\ raw = ("RecoveryMode" :> Str("1")) => dev.mode = "recovery"
           /\ raw = EmptyRaw => dev.mode = "unknown"
           /\ (TrimmedFlag(RawGet(raw, "DFUMode")) /\ version) => dev.mode = "dfu"

C20_Witness ==
    /\ dev.op = "detect_mode"
    /\ dev.raw = ("DFUMode" :> Str(" true ")) @@ ("RecoveryMode" :> Str("1"))
                    @@ ("ProductVersion" :> Str("17.0"))
    /\ dev.mode = "dfu"

Modes == {"normal", "recovery", "dfu", "unknown"}

Connections == {"usb", "wifi", "unknown"}

\* the connection hint get_info passes to _build_device: None after the
\* structured source, "usb" after the fallback
HintOf(tried) == IF Len(tried) = 1 THEN None ELSE Some(Str("usb"))

\* a raw connection value as C21 words it: lower-cased, kept only if it then
\* equals "usb" or "wifi"
StatedConnection(value) ==
    IF value = None THEN "unknown"
    ELSE IF \E w \in {"usb", "wifi"} : Fold(PyStr(value[1])) = w
    THEN Fold(PyStr(value[1]))
    ELSE "unknown"

\* the same with surrounding whitespace removed before the comparison
TrimmedConnection(value) ==
    IF value = None THEN "unknown"
    ELSE IF \E w \in {"usb", "wifi"} : Fold(Strip(PyStr(value[1]))) = w
    THEN Fold(Strip(PyStr(value[1])))
    ELSE "unknown"

(* C21, as stated: every Device returned by get_info or list_devices has mode
   in {normal, recovery, dfu, unknown} and connection in {usb, wifi, unknown};
   the connection is the raw connection value (the ConnectionType of the raw
   map, else the backend's hint) lower-cased and kept only if it equals "usb"
   or "wifi", and "unknown" for anything else. *)
C21_EnumeratedAsStated ==
    (InGetInfo /\ dev.at = "returned") =>
        LET d == dev.device[1]
        IN /\ d.mode \in Modes
           /\ d.connection \in Connections
           /\ d.connection =
                  StatedConnection(PyOr(RawGet(d.details, "ConnectionType"), HintOf(dev.tried)))

(* C21, amended: every Device returned by get_info or list_devices (normalized,
   bare, connection-filled or the DFU placeholder) has mode in {normal,
   recovery, dfu, unknown} and connection in {usb, wifi, unknown}.  The
   connection of a Device of get_info is the raw connection value (the
   ConnectionType of the raw map, else the backend's hint) with surrounding
   whitespace removed and lower-cased, kept only if it then equals "usb" or
   "wifi", and "unknown" for anything else, absent included.  In list_devices a
   bare record takes the discovery hint normalized the same way, and a fetched
   Device whose own connection is unknown takes the normalized discovery hint. *)
C21_EnumeratedModeAndConnection ==
    /\ (InGetInfo /\ dev.at = "returned") =>
           LET d == dev.device[1]
           IN /\ d.mode \in Modes
              /\ d.connection \in Connections
              /\ d.connection =
                     TrimmedConnection(PyOr(RawGet(d.details, "ConnectionType"),
                                            HintOf(dev.tried)))
    /\ (InList /\ dev.at = "returned") =>
           /\ \A i \in 1..Len(dev.devices) :
                  /\ dev.devices[i].mode \in Modes
                  /\ dev.devices[i].connection \in Connections
           /\ \A i \in 1..Len(dev.discovered) :
                  LET d == dev.devices[i]
                      hint == TrimmedConnection(Some(Str(dev.discovered[i].connection)))
                      own == RawGet(d.details, "ConnectionType")
                  IN IF dev.fetched[i] # NoError.type
                     THEN d.connection = hint /\ d.mode = "unknown"
                     ELSE IF PyTruthy(own) /\ TrimmedConnection(own) # "unknown"
                     THEN d.connection = TrimmedConnection(own)
                     ELSE IF PyTruthy(own)
                     THEN d.connection = hint
                     ELSE d.connection \in {"usb", hint}

\* get_info returned a Device whose raw " WiFi " became "wifi"
C21_Witness ==
    /\ InGetInfo
    /\ dev.at = "returned"
    /\ RawGet(dev.device[1].details, "ConnectionType") = Some(Str(" WiFi "))
    /\ dev.device[1].connection = "wifi"

\* list_devices returned a copy whose unknown connection was filled from the hint
C21_FilledCopy ==
    /\ InList
    /\ dev.at = "returned"
    /\ \E i \in 1..Len(dev.discovered) :
           /\ RawGet(dev.devices[i].details, "ConnectionType") = Some(Str("Network"))
           /\ dev.devices[i].connection = "usb"

(***************************************************************************)
(* Properties of the supervision of the child in restore()                 *)
(***************************************************************************)
\* the worker thread has been started
WorkerStarted == wpc # "none"

(* C22: once the worker has been started and the child has exited or the wait
   has timed out, restore() returns a result, whatever the worker does: the
   worker is given no fairness, so it may stay where it is for ever. *)
C22_UnjoinedWorkerDoesNotBlockReturn ==
    (WorkerStarted /\ (proc.state = "exited" \/ timeout_occurred)) ~> Returned

\* restore() has returned while the worker was still at work on the output
C22_Witness ==
    /\ Returned
    /\ WorkerStarted
    /\ ~joined
    /\ wpc \in {"read", "write", "match"}

\* control has left restore(): it returned a result or an exception left it
Left == pc \in {"done", "raised"}

(* C23: on every exit path of restore() after the child was spawned (normal
   exit, nonzero exit, timeout with termination or kill, failure to open the
   log file, worker not joined), when control leaves restore() the log file
   handle is not open and the child is no longer running. *)
C23_CleanupOnEveryExitPath ==
    (Spawned /\ Left) => (fp # "open" /\ proc.state # "running")

(* C24: extraction and log persistence are independent in the worker: a
   failure while writing a line does not stop the extraction on later lines
   (nor a failure while matching the writing of later lines).  So the worker
   ends only at the end of the child's output, and by then every line it took
   has been through the extraction: each milestone such a line holds is
   recorded. *)
C24_ExtractionAndPersistenceIndependent ==
    WorkerFinished =>
        /\ Len(fed) = Len(out)
        /\ \A i \in 1..Len(fed) :
               \A k \in Matching[fed[i]] : STEP_PATTERNS[k] \in seen_steps

(* C26: on the timeout path the order is terminate, a bounded wait, kill.
   terminate is issued only after the wait for the child has timed out; kill
   is issued only on that path, to a child that is still running, either
   after the bounded wait that followed terminate or because terminate itself
   failed; when the child has exited within the bounded wait, no kill
   follows. *)
C26_CancellationOrder ==
    [][/\ (proc'.term /\ ~proc.term) => (timeout_occurred /\ pc = "terminate")
       /\ (proc'.kill /\ ~proc.kill) =>
              /\ timeout_occurred
              /\ proc.state = "running"
              /\ \/ pc = "wait5" /\ proc.term
                 \/ pc = "terminate" /\ ~proc.term
       /\ (pc = "wait5" /\ proc.state = "exited" /\ pc' # pc) =>
              (proc' = proc /\ pc' = "join")]_vars

\* restore() has returned after terminate, the bounded wait and kill
C26_Witness ==
    /\ Returned
    /\ timeout_occurred
    /\ proc.term
    /\ proc.kill


\* the lines the worker has taken but the last
Taken == SubSeq(fed, 1, Len(fed) - 1)

\* the milestone Steps follow the first matching lines of their patterns in
\* the stream the worker has read, and the order of STEP_PATTERNS on one line
InFirstMatchOrder ==
    \A i, j \in 1..Len(progress_steps) :
        i < j =>
            LET ki == PatternOf(progress_steps[i].name)
                kj == PatternOf(progress_steps[j].name)
            IN /\ FirstMatch(ki, fed) > 0
               /\ FirstMatch(ki, fed) <= FirstMatch(kj, fed)
               /\ FirstMatch(ki, fed) = FirstMatch(kj, fed) => ki < kj

(* C27, as stated: at every moment the log file content is a prefix of the
   child's output in arrival order, every line the worker has read is written
   to the log (at the latest by its next step), whether or not it fires a
   milestone, and the milestone Steps are ordered by the position of their
   first matching line. *)
C27_LogIsOutputInArrivalOrder ==
    /\ IsPrefix(logfile, out)
    /\ IF wpc = "write" THEN logfile = Taken ELSE logfile = fed
    /\ InFirstMatchOrder

(* C27, amended: at every moment the log file content is a prefix of the
   child's output in arrival order; every line the worker has read is written
   to the log before its milestones are extracted, whether or not it fires a
   milestone; the one exception is a worker that was not joined within the
   bound: once restore() has closed the log file, the line it reads next is
   not written and the worker stops there.  The milestone Steps are ordered by
   the position of their first matching line. *)
C27_LogIsOutputWhileOpen ==
    /\ IsPrefix(logfile, out)
    /\ wpc \in {"none", "read", "match", "done"} => logfile = fed
    /\ wpc = "write" => logfile = Taken
    /\ wpc = "crashed" => (logfile = Taken /\ fp = "closed" /\ ~joined)
    /\ InFirstMatchOrder

\* a line for a pattern that has fired already is in the log a second time
C27_Witness ==
    /\ Len(logfile) = 2
    /\ logfile[1] = logfile[2]
    /\ Matching[logfile[1]] # {}
    /\ Len(progress_steps) = 1
    /\ wpc = "read"


(* C28: whenever timeout_sec is given as an integer, 0 included, the wait for
   the child's exit is bounded: the foreground does not stay in the wait for
   ever, a child that never exits is driven down the timeout path.  Only an
   absent timeout_sec leaves the wait unbounded. *)
C28_GivenTimeoutBoundsTheWait ==
    (pc = "waiting" /\ args.timeout_sec # None) ~> (pc # "waiting")


\* the milestone Steps among the Steps of a result
Milestones(st) ==
    LET IsMilestone(x) == \E k \in 1..Len(STEP_PATTERNS) : x.name = STEP_PATTERNS[k]
    IN SelectSeq(st, IsMilestone)

(* C29: the Steps of the returned result are fixed when restore() collects
   the worker's milestones after the bounded join: the result is never
   modified after restore() has returned, its milestones are those the worker
   had appended by then (a prefix of the worker's own list, which an unjoined
   worker may go on extending), and all of the worker's milestones when it
   was joined within the bound. *)
C29_StepsFixedAtSnapshot ==
    /\ [][Returned => result' = result]_vars
    /\ []((Returned /\ WorkerStarted) =>
              /\ IsPrefix(Milestones(Res.steps), progress_steps)
              /\ joined => Milestones(Res.steps) = progress_steps)

\* an unjoined worker has fired a milestone after restore() returned
C29_Witness ==
    /\ Returned
    /\ WorkerStarted
    /\ ~joined
    /\ Len(progress_steps) > Len(Milestones(Res.steps))


(***************************************************************************)
(* Properties of utils.py                                                  *)
(***************************************************************************)
(* C25: configure_logging is idempotent: once a first call has attached the
   handlers, every later call leaves the handlers and the level as they are
   and returns the path the first call returned, which is the path of the
   active session log file. *)
C25_ConfigureLoggingIdempotent ==
    logger.first # None =>
        /\ Len(logger.handlers) = 2
        /\ logger.handlers[1] = FileHandler(logger.first[1], logger.level)
        /\ logger.handlers[2] = ConsoleHandler(logger.level)
        /\ logger.last = logger.first

(***************************************************************************)
(* Properties of logs.py                                                   *)
(***************************************************************************)
\* the child idevicesyslog has been started
SyslogStarted == InSyslog /\ syslog.child # "none"

SyslogReturned == InSyslog /\ syslog.at = "returned"

(* C30: stream_syslog with a duration >= 0 stops streaming once the duration
   has elapsed and returns, whether or not the child writes another line
   after that. *)
C30_DurationStopsStreaming ==
    (SyslogStarted /\ DurationReached(syslog.duration, syslog.elapsed)) ~> SyslogReturned

\* C30, the return paths: whenever stream_syslog returns after the child was
\* started, the child is not left running and the save file is closed
C30_ChildAndSaveFileReleased ==
    (SyslogStarted /\ SyslogReturned) => (syslog.child = "exited" /\ syslog.fp # "open")

====
